---- MODULE Spec2Model ----
(***************************************************************************)
(* A model of the wax glob library: the token tree and its queries         *)
(* (src/src/token.rs), the directory walk that matches a glob against a    *)
(* tree with negations (src/src/walk.rs) and the hierarchical file         *)
(* iterator with its filter combinators (src/src/walk/mod.rs).             *)
(*                                                                         *)
(* Text is a sequence of one-character strings.  An optional value is a    *)
(* sequence of length zero (None) or one (Some).                           *)
(***************************************************************************)
EXTENDS Integers, Sequences, FiniteSets, TLC

\* ------------------------------------------------------------------------
\* Generic helpers
\* ------------------------------------------------------------------------

None == <<>>

Some(x) == <<x>>

\* usize::saturating_sub
SatSub(a, b) == IF a > b THEN a - b ELSE 0

\* Iterator::skip on a sequence
Skip(s, n) == IF n >= Len(s) THEN <<>> ELSE SubSeq(s, n + 1, Len(s))

RECURSIVE Flatten(_)
Flatten(ss) == IF ss = <<>> THEN <<>> ELSE Head(ss) \o Flatten(Tail(ss))

\* Itertools::join of texts with a separator text
RECURSIVE JoinText(_, _)
JoinText(ss, sep) ==
    IF ss = <<>> THEN <<>>
    ELSE IF Len(ss) = 1 THEN Head(ss)
    ELSE Head(ss) \o sep \o JoinText(Tail(ss), sep)

RECURSIVE RepeatText(_, _)
RepeatText(text, n) == IF n = 0 THEN <<>> ELSE text \o RepeatText(text, n - 1)

IsPrefixSeq(p, s) == Len(p) <= Len(s) /\ SubSeq(s, 1, Len(p)) = p

\* ------------------------------------------------------------------------
\* Platform constants (a Unix build)
\* ------------------------------------------------------------------------

MAIN_SEPARATOR == "/"

\* usize::MAX, as wide as the integers of TLC
USIZE_MAX == 2147483647

PATHS_ARE_CASE_INSENSITIVE == FALSE

\* the characters of the model that have casing (CharExt::has_casing)
CasedChars == {"a", "b", "c", "A"}

HasCasing(text) == \E i \in 1..Len(text) : text[i] \in CasedChars

FoldChar(c) == IF c = "A" THEN "a" ELSE c

CaseFoldedEq(l, r) ==
    /\ Len(l) = Len(r)
    /\ \A i \in 1..Len(l) : FoldChar(l[i]) = FoldChar(r[i])

\* ------------------------------------------------------------------------
\* Tokens (token.rs): TokenKind and its variants
\* ------------------------------------------------------------------------

Literal(text, ci) == [kind |-> "Literal", text |-> text, is_case_insensitive |-> ci]

Separator == [kind |-> "Separator"]

WildcardOne == [kind |-> "Wildcard", wildcard |-> "One"]

WildcardZeroOrMore == [kind |-> "Wildcard", wildcard |-> "ZeroOrMore"]

WildcardTree(is_rooted) == [kind |-> "Wildcard", wildcard |-> "Tree", is_rooted |-> is_rooted]

Alternative(branches) == [kind |-> "Alternative", branches |-> branches]

\* step is None (no upper bound) or Some(upper - lower)
Repetition(tokens, lower, step) ==
    [kind |-> "Repetition", tokens |-> tokens, lower |-> lower, step |-> step]

Class(is_negated, archetypes) ==
    [kind |-> "Class", is_negated |-> is_negated, archetypes |-> archetypes]

ArchetypeCharacter(c) == [kind |-> "Character", a |-> c, b |-> c]

ArchetypeRange(a, b) == [kind |-> "Range", a |-> a, b |-> b]

IsTree(token) == token.kind = "Wildcard" /\ token.wildcard = "Tree"

\* TokenKind::is_component_boundary
IsComponentBoundary(token) == token.kind = "Separator" \/ IsTree(token)

\* TokenKind::has_sub_tokens
HasSubTokens(token) == token.kind \in {"Alternative", "Repetition"}

\* Repetition::bounds: (lower, upper) with upper optional
RepetitionBounds(rep) ==
    [lower |-> rep.lower,
     upper |-> IF rep.step = None THEN None ELSE Some(rep.lower + rep.step[1])]

\* ------------------------------------------------------------------------
\* Boundedness and variance (token.rs)
\* ------------------------------------------------------------------------

Open == "Open"

Closed == "Closed"

Invariant(text) == [v |-> "Invariant", text |-> text]

Variant(boundedness) == [v |-> "Variant", boundedness |-> boundedness]

IsInvariant(variance) == variance.v = "Invariant"

\* Variance::boundedness
VarianceBoundedness(variance) ==
    IF variance.v = "Variant" THEN variance.boundedness ELSE Closed

\* Variance::to_invariant_string
ToInvariantString(variance) ==
    IF variance.v = "Invariant" THEN Some(variance.text) ELSE None

\* an addition for which Invariant of the empty text is an identity
VarianceAddWithIdentity(l, r) ==
    IF l = Invariant(<<>>) THEN r
    ELSE IF r = Invariant(<<>>) THEN l
    ELSE IF l.v = "Invariant" /\ r.v = "Invariant" THEN Invariant(l.text \o r.text)
    ELSE IF l = Variant(Open) /\ r = Variant(Open) THEN Variant(Open)
    ELSE Variant(Closed)

\* impl Add for Variance
VarianceAdd(l, r) ==
    IF l.v = "Invariant" /\ r.v = "Invariant" THEN Invariant(l.text \o r.text)
    ELSE IF l.v = "Variant" /\ r.v = "Variant"
            /\ l.boundedness = Open /\ r.boundedness = Open
         THEN Variant(Open)
    ELSE Variant(Closed)

\* impl PartialEq for Variance
VarianceEq(l, r) ==
    IF l.v = "Invariant" /\ r.v = "Invariant"
    THEN IF PATHS_ARE_CASE_INSENSITIVE THEN CaseFoldedEq(l.text, r.text)
         ELSE l.text = r.text
    ELSE IF l.v = "Variant" /\ r.v = "Variant" THEN l.boundedness = r.boundedness
    ELSE FALSE

\* ConjunctiveVariance::conjunctive_variance over a sequence of variances
RECURSIVE ReduceAdd(_, _)
ReduceAdd(acc, vs) ==
    IF vs = <<>> THEN acc ELSE ReduceAdd(VarianceAdd(acc, Head(vs)), Tail(vs))

ConjunctiveVariance(vs) ==
    IF vs = <<>> THEN Invariant(<<>>) ELSE ReduceAdd(Head(vs), Tail(vs))

\* DisjunctiveVariance::disjunctive_variance over a sequence of variances
DisjunctiveVariance(vs) ==
    IF \A i \in 1..Len(vs) : \A j \in (i + 1)..Len(vs) : VarianceEq(vs[i], vs[j])
    THEN IF vs = <<>> THEN Invariant(<<>>) ELSE vs[1]
    ELSE Variant(Closed)

\* Archetype::variance
ArchetypeVariance(archetype) ==
    IF archetype.kind = "Character"
    THEN IF PATHS_ARE_CASE_INSENSITIVE THEN Variant(Closed)
         ELSE Invariant(<<archetype.a>>)
    ELSE IF archetype.a /= archetype.b \/ PATHS_ARE_CASE_INSENSITIVE
         THEN Variant(Closed)
         ELSE Invariant(<<archetype.a>>)

\* Literal::has_variant_casing
HasVariantCasing(literal) ==
    (PATHS_ARE_CASE_INSENSITIVE /= literal.is_case_insensitive) /\ HasCasing(literal.text)

\* Token::has_token_with, has_preceding_token_with and has_terminating_token_with
\* take a predicate; the predicates the source passes are named by a tag.
RECURSIVE TokenDepth(_), TokenBreadth(_), ApplyPredicate(_, _), HasTokenWith(_, _)
RECURSIVE HasPrecedingTokenWith(_, _), HasTerminatingTokenWith(_, _)

ApplyPredicate(p, token) ==
    CASE p = "is_component_boundary" -> IsComponentBoundary(token)
      [] p = "depth_is_open" -> TokenDepth(token) = Open
      [] p = "breadth_is_open" -> TokenBreadth(token) = Open
      [] p = "is_rooted" ->
            \/ token.kind = "Separator"
            \/ (IsTree(token) /\ token.is_rooted)

HasTokenWith(token, p) ==
    CASE token.kind = "Alternative" ->
            \E b \in 1..Len(token.branches) :
                \E i \in 1..Len(token.branches[b]) : HasTokenWith(token.branches[b][i], p)
      [] token.kind = "Repetition" ->
            \E i \in 1..Len(token.tokens) : HasTokenWith(token.tokens[i], p)
      [] OTHER -> ApplyPredicate(p, token)

HasPrecedingTokenWith(token, p) ==
    CASE token.kind = "Alternative" ->
            \E b \in 1..Len(token.branches) :
                /\ token.branches[b] /= <<>>
                /\ HasPrecedingTokenWith(token.branches[b][1], p)
      [] token.kind = "Repetition" ->
            /\ token.tokens /= <<>>
            /\ HasPrecedingTokenWith(token.tokens[1], p)
      [] OTHER -> ApplyPredicate(p, token)

HasTerminatingTokenWith(token, p) ==
    CASE token.kind = "Alternative" ->
            \E b \in 1..Len(token.branches) :
                /\ token.branches[b] /= <<>>
                /\ HasTerminatingTokenWith(token.branches[b][Len(token.branches[b])], p)
      [] token.kind = "Repetition" ->
            /\ token.tokens /= <<>>
            /\ HasTerminatingTokenWith(token.tokens[Len(token.tokens)], p)
      [] OTHER -> ApplyPredicate(p, token)

\* Alternative::has_token_with and Repetition::has_token_with, called on the
\* alternative or repetition itself
SubTokensHaveTokenWith(token, p) == HasTokenWith(token, p)

\* TokenKind::depth
TokenDepth(token) ==
    CASE token.kind = "Alternative" ->
            IF SubTokensHaveTokenWith(token, "depth_is_open") THEN Open ELSE Closed
      [] token.kind = "Repetition" ->
            IF RepetitionBounds(token).upper = None
               /\ SubTokensHaveTokenWith(token, "is_component_boundary")
            THEN Open ELSE Closed
      [] IsTree(token) -> Open
      [] OTHER -> Closed

\* TokenKind::breadth
TokenBreadth(token) ==
    CASE token.kind = "Alternative" ->
            IF SubTokensHaveTokenWith(token, "breadth_is_open") THEN Open ELSE Closed
      [] token.kind = "Repetition" ->
            IF SubTokensHaveTokenWith(token, "breadth_is_open") THEN Open ELSE Closed
      [] token.kind = "Wildcard" /\ token.wildcard \in {"Tree", "ZeroOrMore"} -> Open
      [] OTHER -> Closed

\* the token is a separator
IsSeparatorToken(token) == token.kind = "Separator"

\* Token::is_rooted
IsRooted(token) == HasPrecedingTokenWith(token, "is_rooted")

\* Token::has_component_boundary
HasComponentBoundary(token) == HasTokenWith(token, "is_component_boundary")

\* impl Depth for an iterator of tokens
TokensDepth(tokens) ==
    IF \E i \in 1..Len(tokens) : TokenDepth(tokens[i]) = Open THEN Open ELSE Closed

RECURSIVE TokenVariance(_), TokensVariance(_), MapVariance(_), Coalesce(_, _)

\* the variances of a sequence of tokens, in order
MapVariance(tokens) ==
    IF tokens = <<>> THEN <<>>
    ELSE <<TokenVariance(Head(tokens))>> \o MapVariance(Tail(tokens))

\* conjunctive_variance of a sequence of tokens (Tokenized::variance,
\* Component::variance)
TokensVariance(tokens) == ConjunctiveVariance(MapVariance(tokens))

\* Itertools::coalesce with the closure of Repetition::variance: `last` is the
\* pending element, `rest` the elements not yet seen
Coalesce(last, rest) ==
    IF rest = <<>> THEN <<last>>
    ELSE LET right == Head(rest)
             lv == TokenVariance(last)
             rv == TokenVariance(right)
         IN  IF last.kind = "Separator" /\ rv = Variant(Open)
             THEN Coalesce(right, Tail(rest))
             ELSE IF lv = Variant(Open) /\ right.kind = "Separator"
             THEN Coalesce(last, Tail(rest))
             ELSE <<last>> \o Coalesce(right, Tail(rest))

\* the variance of a repetition as if it had no upper bound and nothing
\* were coalesced
RepetitionVarianceOpen(rep) == VarianceAdd(TokensVariance(rep.tokens), Variant(Open))

\* Repetition::variance
RepetitionVariance(rep) ==
    LET coalesced == IF rep.tokens = <<>> THEN <<>>
                     ELSE Coalesce(Head(rep.tokens), Tail(rep.tokens))
        variance == TokensVariance(coalesced)
    IN  IF rep.step = Some(0)
        THEN IF variance.v = "Invariant"
             THEN Invariant(RepeatText(variance.text, rep.lower))
             ELSE variance
        ELSE VarianceAdd(variance, Variant(Open))

\* Alternative::variance
AlternativeVariance(alt) ==
    DisjunctiveVariance([b \in 1..Len(alt.branches) |-> TokensVariance(alt.branches[b])])

\* Class::variance
ClassVariance(class) ==
    IF class.is_negated THEN Variant(Closed)
    ELSE DisjunctiveVariance(
            [i \in 1..Len(class.archetypes) |-> ArchetypeVariance(class.archetypes[i])])

\* Literal::variance
LiteralVariance(literal) ==
    IF HasVariantCasing(literal) THEN Variant(Closed) ELSE Invariant(literal.text)

\* TokenKind::variance
TokenVariance(token) ==
    CASE token.kind = "Alternative" -> AlternativeVariance(token)
      [] token.kind = "Class" -> ClassVariance(token)
      [] token.kind = "Literal" -> LiteralVariance(token)
      [] token.kind = "Repetition" -> RepetitionVariance(token)
      [] token.kind = "Separator" -> Invariant(<<MAIN_SEPARATOR>>)
      [] token.kind = "Wildcard" -> Variant(Open)

\* ------------------------------------------------------------------------
\* Components (token.rs)
\* ------------------------------------------------------------------------

\* the number of tokens at the head of the sequence that are not separators
RECURSIVE TakeWhileNotSeparator(_)
TakeWhileNotSeparator(tokens) ==
    IF tokens = <<>> \/ Head(tokens).kind = "Separator" THEN 0
    ELSE 1 + TakeWhileNotSeparator(Tail(tokens))

\* take_while_ref(|token| !token.is_component_boundary()): the length of the
\* longest prefix of tokens without a component boundary
RECURSIVE TakeWhileNotBoundary(_)
TakeWhileNotBoundary(tokens) ==
    IF tokens = <<>> \/ IsComponentBoundary(Head(tokens)) THEN 0
    ELSE 1 + TakeWhileNotBoundary(Tail(tokens))

RECURSIVE SkipSeparators(_)
SkipSeparators(tokens) ==
    IF tokens /= <<>> /\ Head(tokens).kind = "Separator"
    THEN SkipSeparators(Tail(tokens))
    ELSE tokens

\* token::components: the components of a token sequence, each a sequence of
\* tokens
RECURSIVE Components(_)
Components(tokens) ==
    LET rest == SkipSeparators(tokens)
    IN  IF rest = <<>> THEN <<>>
        ELSE IF IsTree(Head(rest)) THEN <<<<Head(rest)>>>> \o Components(Tail(rest))
        ELSE LET n == 1 + TakeWhileNotBoundary(Tail(rest))
             IN  <<SubSeq(rest, 1, n)>> \o Components(Skip(rest, n))

\* Component::depth
ComponentDepth(component) == TokensDepth(component)

\* Component::variance
ComponentVariance(component) == TokensVariance(component)

\* the texts of all the components that are invariant, wherever they are
RECURSIVE EveryInvariantComponentText(_)
EveryInvariantComponentText(components) ==
    IF components = <<>> THEN <<>>
    ELSE LET text == ToInvariantString(ComponentVariance(Head(components)))
         IN  (IF text = None THEN <<>> ELSE <<text[1]>>)
             \o EveryInvariantComponentText(Tail(components))

\* token::invariant_prefix_path as text: None or Some(text)
RECURSIVE InvariantComponentTexts(_)
InvariantComponentTexts(components) ==
    IF components = <<>> THEN <<>>
    ELSE LET text == ToInvariantString(ComponentVariance(Head(components)))
         IN  IF text = None THEN <<>>
             ELSE <<text[1]>> \o InvariantComponentTexts(Tail(components))

InvariantPrefixText(tokens) ==
    LET rooting == IF tokens /= <<>> /\ ~HasSubTokens(tokens[1]) /\ IsRooted(tokens[1])
                   THEN <<MAIN_SEPARATOR>> ELSE <<>>
        prefix == rooting
                  \o JoinText(InvariantComponentTexts(Components(tokens)), <<MAIN_SEPARATOR>>)
    IN  IF prefix = <<>> THEN None ELSE Some(prefix)

\* ------------------------------------------------------------------------
\* Paths (std::path): a path is whether it has a root and its normal
\* components, each the text of a name
\* ------------------------------------------------------------------------

Path(abs, comps) == [abs |-> abs, comps |-> comps]

\* PathBuf::new()
EmptyPath == Path(FALSE, <<>>)

\* the names of a text between separators; empty names are dropped as
\* Path::components drops repeated and trailing separators
RECURSIVE SplitText(_, _)
SplitText(text, cur) ==
    IF text = <<>> THEN (IF cur = <<>> THEN <<>> ELSE <<cur>>)
    ELSE IF Head(text) = MAIN_SEPARATOR
         THEN (IF cur = <<>> THEN <<>> ELSE <<cur>>) \o SplitText(Tail(text), <<>>)
         ELSE SplitText(Tail(text), Append(cur, Head(text)))

\* PathBuf::from(text)
PathFromText(text) ==
    Path(text /= <<>> /\ text[1] = MAIN_SEPARATOR, SplitText(text, <<>>))

\* Path::to_string_lossy
PathToText(path) ==
    (IF path.abs THEN <<MAIN_SEPARATOR>> ELSE <<>>)
    \o JoinText(path.comps, <<MAIN_SEPARATOR>>)

\* Path::components: the root directory is a component of its own
RootDir == [kind |-> "RootDir"]

Normal(name) == [kind |-> "Normal", name |-> name]

PathComponents(path) ==
    (IF path.abs THEN <<RootDir>> ELSE <<>>)
    \o [i \in 1..Len(path.comps) |-> Normal(path.comps[i])]

\* collecting components into a path
PathFromComponents(components) ==
    IF components /= <<>> /\ components[1].kind = "RootDir"
    THEN Path(TRUE, [i \in 1..(Len(components) - 1) |-> components[i + 1].name])
    ELSE Path(FALSE, [i \in 1..Len(components) |-> components[i].name])

\* Path::join
PathJoin(base, path) ==
    IF path.abs THEN path ELSE Path(base.abs, base.comps \o path.comps)

\* Path::is_absolute
IsAbsolute(path) == path.abs

\* Path::strip_prefix for a prefix of the path
StripPrefix(path, prefix) ==
    PathFromComponents(Skip(PathComponents(path), Len(PathComponents(prefix))))

\* token::invariant_prefix_path
InvariantPrefixPath(tokens) ==
    LET text == InvariantPrefixText(tokens)
    IN  IF text = None THEN None ELSE Some(PathFromText(text[1]))

\* ------------------------------------------------------------------------
\* Matching.  A compiled pattern is kept as the tokens it was compiled
\* from; a match is anchored at both ends of the text.
\* ------------------------------------------------------------------------

CharEq(ci, a, b) == IF ci THEN FoldChar(a) = FoldChar(b) ELSE a = b

ArchetypeMatches(archetype, c) ==
    IF archetype.kind = "Character" THEN c = archetype.a
    ELSE \E x \in {archetype.a, archetype.b} : c = x

RECURSIVE IsMatchFrom(_, _, _, _), TokenEnds(_, _, _, _), RepetitionEnds(_, _, _, _)

\* the positions at which a match of tokens[k] that starts after position i
\* of the text can end
TokenEnds(tokens, k, s, i) ==
    LET token == tokens[k]
        rest == i..Len(s)
        position == IF Len(tokens) = 1 THEN "Only"
                    ELSE IF k = 1 THEN "First"
                    ELSE IF k = Len(tokens) THEN "Last" ELSE "Middle"
    IN  CASE token.kind = "Literal" ->
                {j \in rest :
                    /\ j = i + Len(token.text)
                    /\ \A n \in 1..Len(token.text) :
                            CharEq(token.is_case_insensitive, s[i + n], token.text[n])}
          [] token.kind = "Separator" ->
                {j \in rest : j = i + 1 /\ s[j] = MAIN_SEPARATOR}
          [] token.kind = "Class" ->
                {j \in rest :
                    /\ j = i + 1
                    /\ s[j] /= MAIN_SEPARATOR
                    /\ token.is_negated /=
                            (\E a \in 1..Len(token.archetypes) :
                                ArchetypeMatches(token.archetypes[a], s[j]))}
          [] token.kind = "Wildcard" /\ token.wildcard = "One" ->
                {j \in rest : j = i + 1 /\ s[j] /= MAIN_SEPARATOR}
          [] token.kind = "Wildcard" /\ token.wildcard = "ZeroOrMore" ->
                {j \in rest : \A n \in (i + 1)..j : s[n] /= MAIN_SEPARATOR}
          [] token.kind = "Wildcard" /\ token.wildcard = "Tree" ->
                {j \in rest :
                    CASE position = "Only" -> TRUE
                      [] position = "First" -> j = i \/ s[j] = MAIN_SEPARATOR
                      [] position = "Middle" ->
                            j > i /\ s[i + 1] = MAIN_SEPARATOR /\ s[j] = MAIN_SEPARATOR
                      [] position = "Last" -> j = i \/ s[i + 1] = MAIN_SEPARATOR}
          [] token.kind = "Alternative" ->
                {j \in rest :
                    \E b \in 1..Len(token.branches) :
                        IsMatchFrom(token.branches[b], 1, SubSeq(s, i + 1, j), 0)}
          [] token.kind = "Repetition" ->
                UNION {RepetitionEnds(token.tokens, n, s, i) :
                        n \in token.lower..(IF token.step = None
                                            THEN token.lower + Len(s)
                                            ELSE token.lower + token.step[1])}

\* the positions at which n repetitions of the tokens that start after
\* position i can end
RepetitionEnds(tokens, n, s, i) ==
    IF n = 0 THEN {i}
    ELSE UNION {RepetitionEnds(tokens, n - 1, s, j) :
                    j \in {e \in i..Len(s) : IsMatchFrom(tokens, 1, SubSeq(s, i + 1, e), 0)}}

\* tokens[k..] match the text after position i up to its end
IsMatchFrom(tokens, k, s, i) ==
    IF k > Len(tokens) THEN i = Len(s)
    ELSE \E j \in TokenEnds(tokens, k, s, i) : IsMatchFrom(tokens, k + 1, s, j)

\* Regex::is_match of a compiled pattern on the text of a candidate path
IsMatch(tokens, text) == IsMatchFrom(tokens, 1, text, 0)

\* Regex::captures: Some exactly when the pattern matches
Captures(tokens, text) == IF IsMatch(tokens, text) THEN Some(text) ELSE None

\* crate::any of a set of patterns: matches what any of them matches
AnyIsMatch(patterns, text) == \E tokens \in patterns : IsMatch(tokens, text)

\* ------------------------------------------------------------------------
\* Directory trees.  A tree maps the real path of each file (the names from
\* the file system root) to what is there.  The target of a link is a real
\* path.
\* ------------------------------------------------------------------------

NameA == <<"a">>

NameB == <<"b">>

NameC == <<"c">>

Dir == [type |-> "dir", readable |-> TRUE, target |-> <<>>]

UnreadableDir == [type |-> "dir", readable |-> FALSE, target |-> <<>>]

File == [type |-> "file", readable |-> TRUE, target |-> <<>>]

Link(target) == [type |-> "link", readable |-> TRUE, target |-> target]

TreePlain ==
    (<<>> :> Dir)
    @@ (<<NameA>> :> Dir) @@ (<<NameA, NameB>> :> Dir)
    @@ (<<NameA, NameB, NameC>> :> File) @@ (<<NameA, NameC>> :> File)
    @@ (<<NameB>> :> Dir) @@ (<<NameB, NameC>> :> Dir)
    @@ (<<NameB, NameC, NameA>> :> File)
    @@ (<<NameC>> :> File)

\* the same tree with a directory that cannot be read
TreeDenied == (<<NameB>> :> UnreadableDir) @@ TreePlain

\* the same tree with a re-entrant link: b/c/b points at b
TreeLinked == (<<NameB, NameC, NameB>> :> Link(<<NameB>>)) @@ TreePlain

FileTree(fs) ==
    CASE fs = "plain" -> TreePlain
      [] fs = "denied" -> TreeDenied
      [] fs = "linked" -> TreeLinked

\* the real path of a path whose links are followed, but for a link in the
\* last place when follow_last is false
RECURSIVE RealPath(_, _, _)
RealPath(tree, comps, follow_last) ==
    IF comps = <<>> THEN <<>>
    ELSE LET parent == RealPath(tree, SubSeq(comps, 1, Len(comps) - 1), TRUE)
             here == Append(parent, comps[Len(comps)])
         IN  IF here \in DOMAIN tree /\ tree[here].type = "link" /\ follow_last
             THEN tree[here].target
             ELSE here

Exists(tree, comps) == RealPath(tree, comps, FALSE) \in DOMAIN tree

\* fs::symlink_metadata: the file type of what is at the path
LinkFileType(tree, comps) == tree[RealPath(tree, comps, FALSE)].type

\* fs::metadata: the file type of what the path leads to
TargetFileType(tree, comps) == tree[RealPath(tree, comps, TRUE)].type

\* fs::read_dir: the names in a directory
ReadDir(tree, comps) ==
    LET real == RealPath(tree, comps, TRUE)
    IN  {q[Len(q)] : q \in {r \in DOMAIN tree :
                                Len(r) = Len(real) + 1 /\ IsPrefixSeq(real, r)}}

Readable(tree, comps) == tree[RealPath(tree, comps, TRUE)].readable

\* ------------------------------------------------------------------------
\* The traversal of a tree by walkdir::IntoIter, which both walks drive:
\* opts are the options of the builder, start the root not yet handled and
\* stack the open directories, each with the names not yet read from it
\* ------------------------------------------------------------------------

\* WalkDir::new(root)
WalkDirNew(root) ==
    [opts |-> [min_depth |-> 0, max_depth |-> USIZE_MAX, follow_links |-> FALSE],
     start |-> Some(root),
     stack |-> <<>>]

\* WalkDir::follow_links
WalkDirFollowLinks(w, yes) == [w EXCEPT !.opts.follow_links = yes]

\* WalkDir::min_depth
WalkDirMinDepth(w, depth) ==
    [w EXCEPT !.opts.min_depth =
        IF depth > w.opts.max_depth THEN w.opts.max_depth ELSE depth]

\* WalkDir::max_depth
WalkDirMaxDepth(w, depth) ==
    [w EXCEPT !.opts.max_depth =
        IF depth < w.opts.min_depth THEN w.opts.min_depth ELSE depth]

\* what IntoIter::next returns: nothing, an entry or an error
NoItem == [kind |-> "None"]

OkItem(path, depth, file_type) ==
    [kind |-> "Ok", path |-> path, depth |-> depth, file_type |-> file_type,
     error |-> "", ancestor |-> <<>>]

\* an error of reading the file system at a path
IoErrorItem(path, depth) ==
    [kind |-> "Err", path |-> path, depth |-> depth, file_type |-> "",
     error |-> "Io", ancestor |-> <<>>]

\* the error of a link to a directory that is open above it
LoopErrorItem(path, depth, ancestor) ==
    [kind |-> "Err", path |-> path, depth |-> depth, file_type |-> "",
     error |-> "Loop", ancestor |-> ancestor]

\* IntoIter::check_loop: the open directories that are the target of the link
LoopAncestors(tree, stack, comps) ==
    {k \in 1..Len(stack) :
        RealPath(tree, stack[k].dir, TRUE) = RealPath(tree, comps, TRUE)}

\* IntoIter::push: open a directory; an error of reading it is kept and
\* comes first out of it
DirList(tree, comps) ==
    IF Readable(tree, comps)
    THEN [dir |-> comps, pending |-> ReadDir(tree, comps), err |-> FALSE]
    ELSE [dir |-> comps, pending |-> {}, err |-> TRUE]

\* IntoIter::pop
Pop(w) == [w EXCEPT !.stack = SubSeq(w.stack, 1, Len(w.stack) - 1)]

\* skip_current_dir is left out
KeepCurrentDir(w) == w

\* IntoIter::skip_current_dir, as the walks call it
SkipCurrentDir(w) == IF w.stack = <<>> THEN w ELSE Pop(w)

RECURSIVE WalkDirLoop(_, _), HandleEntry(_, _, _, _)

\* IntoIter::handle_entry for the file at comps, read at the depth: the
\* outcomes of the call to next that handles it
HandleEntry(tree, w, comps, depth) ==
    LET is_link == LinkFileType(tree, comps) = "link"
        followed == w.opts.follow_links /\ is_link
        loops == LoopAncestors(tree, w.stack, comps)
        file_type == IF followed THEN TargetFileType(tree, comps)
                     ELSE LinkFileType(tree, comps)
        pushed == IF file_type = "dir"
                  THEN [w EXCEPT !.stack = Append(w.stack, DirList(tree, comps))]
                  ELSE w
    IN  IF followed /\ TargetFileType(tree, comps) = "dir" /\ loops /= {}
        THEN {[item |-> LoopErrorItem(comps, depth,
                            w.stack[CHOOSE k \in loops : \A j \in loops : k >= j].dir),
               walk |-> w]}
        ELSE IF depth < w.opts.min_depth \/ depth > w.opts.max_depth
        THEN WalkDirLoop(tree, pushed)
        ELSE {[item |-> OkItem(comps, depth, file_type), walk |-> pushed]}

\* the loop of IntoIter::next over the open directories; the order in which
\* a directory gives its names is not determined
WalkDirLoop(tree, w) ==
    IF w.stack = <<>> THEN {[item |-> NoItem, walk |-> w]}
    ELSE LET depth == Len(w.stack)
             top == w.stack[depth]
         IN  IF depth > w.opts.max_depth THEN WalkDirLoop(tree, Pop(w))
             ELSE IF top.err
             THEN {[item |-> IoErrorItem(top.dir, depth - 1),
                    walk |-> [w EXCEPT !.stack[depth].err = FALSE]]}
             ELSE IF top.pending = {} THEN WalkDirLoop(tree, Pop(w))
             ELSE UNION {HandleEntry(tree,
                            [w EXCEPT !.stack[depth].pending = top.pending \ {name}],
                            Append(top.dir, name), depth) :
                         name \in top.pending}

\* IntoIter::next: the outcomes [item, walk] of one call
WalkDirNext(tree, w) ==
    IF w.start /= None
    THEN LET root == w.start[1]
             started == [w EXCEPT !.start = None]
         IN  IF Exists(tree, root) THEN HandleEntry(tree, started, root, 0)
             ELSE {[item |-> IoErrorItem(root, 0), walk |-> started]}
    ELSE WalkDirLoop(tree, w)

\* ------------------------------------------------------------------------
\* The walk of a glob over a tree (walk.rs)
\* ------------------------------------------------------------------------

\* Walk::compile: one pattern for each component up to the first component
\* that has a component boundary
RECURSIVE CompileComponents(_)
CompileComponents(components) ==
    IF components = <<>> THEN <<>>
    ELSE IF \E i \in 1..Len(Head(components)) : HasComponentBoundary(Head(components)[i])
    THEN <<>>
    ELSE <<Head(components)>> \o CompileComponents(Tail(components))

Compile(tokens) == CompileComponents(Components(tokens))

\* a pattern is terminal when a token of its last component has open depth
\* and a token of it has open breadth
IsTerminalByBreadth(tokens) ==
    LET components == Components(tokens)
    IN  /\ components /= <<>>
        /\ \E k \in 1..Len(components[Len(components)]) :
                TokenDepth(components[Len(components)][k]) = Open
        /\ \E k \in 1..Len(components[Len(components)]) :
                TokenBreadth(components[Len(components)][k]) = Open

\* walk::is_terminal
IsTerminal(tokens) ==
    LET components == Components(tokens)
    IN  /\ components /= <<>>
        /\ ComponentDepth(components[Len(components)]) = Open
        /\ VarianceBoundedness(ComponentVariance(components[Len(components)])) = Open

\* Negation::try_from_patterns: the patterns split into the terminal and the
\* nonterminal, each matched by crate::any
NegationFromPatterns(patterns) ==
    [terminal |-> {tokens \in patterns : IsTerminal(tokens)},
     nonterminal |-> {tokens \in patterns : ~IsTerminal(tokens)}]

ReadFile == "ReadFile"

ReadTarget == "ReadTarget"

\* no link is followed, whatever the link behavior
FollowNoLinks(link) == FALSE

\* the match on the link behavior that is given to follow_links
FollowLinks(link) == link = ReadTarget

\* walk::walk: the Walk of a glob in a directory; behavior is the maximum
\* depth and the link behavior
WalkNew(glob, directory, behavior) ==
    LET found == InvariantPrefixPath(glob)
        root == IF found = None THEN directory ELSE PathJoin(directory, found[1])
        prefix == IF found = None THEN directory
                  ELSE IF IsAbsolute(found[1]) THEN EmptyPath ELSE directory
        depth == IF found = None \/ IsAbsolute(found[1]) THEN behavior.depth
                 ELSE SatSub(behavior.depth, Len(PathComponents(found[1])))
    IN  [pattern |-> glob,
         components |-> Compile(glob),
         negation |-> None,
         prefix |-> prefix,
         walk |-> WalkDirMaxDepth(
                    WalkDirFollowLinks(WalkDirNew(root.comps), FollowLinks(behavior.link)),
                    depth)]

\* Walk::not
WalkNot(this, patterns) ==
    [this EXCEPT !.negation = Some(NegationFromPatterns(patterns))]

\* the path of an entry of the traversal
EntryPath(item) == Path(TRUE, item.path)

\* Iterator::zip_longest followed by with_position
ZipLongestWithPosition(left, right) ==
    LET n == IF Len(left) > Len(right) THEN Len(left) ELSE Len(right)
    IN  [i \in 1..n |->
            [position |-> IF n = 1 THEN "Only"
                          ELSE IF i = 1 THEN "First"
                          ELSE IF i = n THEN "Last" ELSE "Middle",
             which |-> IF i <= Len(left) /\ i <= Len(right) THEN "Both"
                       ELSE IF i <= Len(left) THEN "Left" ELSE "Right",
             component |-> IF i <= Len(left) THEN left[i] ELSE <<>>,
             pattern |-> IF i <= Len(right) THEN right[i] ELSE <<>>]]

\* filter_map of the normal components of a path to their text
RECURSIVE NormalTexts(_)
NormalTexts(components) ==
    IF components = <<>> THEN <<>>
    ELSE IF Head(components).kind = "Normal"
    THEN <<Head(components).name>> \o NormalTexts(Tail(components))
    ELSE NormalTexts(Tail(components))

\* walk::candidates
Candidates(entry, path, patterns) ==
    LET depth == SatSub(entry.depth, 1)
    IN  ZipLongestWithPosition(NormalTexts(Skip(PathComponents(path), depth)),
                               Skip(patterns, depth))

Emitted == "Emitted"

PrunedNode == "PrunedNode"

PrunedTree == "PrunedTree"

Errored == "Errored"

\* the entry is emitted whatever the whole pattern captures
EmitAlways(pattern, text) == Emitted

\* the entry is emitted if the whole pattern captures the path
EmitIfCaptured(pattern, text) ==
    IF Captures(pattern, text) /= None THEN Emitted ELSE PrunedNode

\* skip_current_dir is never called
NeverSkip(entry) == PrunedNode

\* skip_current_dir is called for a directory only
SkipIfDir(entry) ==
    IF entry.file_type = "dir" THEN PrunedTree ELSE PrunedNode

\* the loop of walk! over the candidates from the i-th on, and what follows
\* the loop: the outcome of the entry
RECURSIVE MatchCandidates(_, _, _, _, _)
MatchCandidates(candidates, i, entry, text, this) ==
    IF i > Len(candidates) THEN EmitIfCaptured(this.pattern, text)
    ELSE LET candidate == candidates[i]
         IN  IF candidate.which = "Both" /\ candidate.position \in {"First", "Middle"}
             THEN IF ~IsMatch(candidate.pattern, candidate.component)
                  THEN SkipIfDir(entry)
                  ELSE MatchCandidates(candidates, i + 1, entry, text, this)
             ELSE IF candidate.which = "Both"
             THEN IF IsMatch(candidate.pattern, candidate.component)
                  THEN EmitIfCaptured(this.pattern, text)
                  ELSE SkipIfDir(entry)
             ELSE IF candidate.which = "Left"
             THEN EmitIfCaptured(this.pattern, text)
             ELSE PrunedNode

\* the body of the loop of walk! without a negation, for an entry
WalkEntry(this, entry) ==
    LET path == StripPrefix(EntryPath(entry), this.prefix)
    IN  MatchCandidates(Candidates(entry, path, this.components), 1, entry,
                        PathToText(path), this)

\* the body of the loop of walk! with a negation, for an entry
WalkEntryNegation(this, entry) ==
    LET path == StripPrefix(EntryPath(entry), this.prefix)
        text == PathToText(path)
    IN  IF AnyIsMatch(this.negation[1].terminal, text) THEN SkipIfDir(entry)
        ELSE IF AnyIsMatch(this.negation[1].nonterminal, text) THEN PrunedNode
        ELSE MatchCandidates(Candidates(entry, path, this.components), 1, entry,
                             text, this)

\* what is recorded of an item of the traversal: its outcome and, for the
\* combinators of a file iterator, how each of them in turn left it and
\* whether its function was applied
Record(item, outcome, statuses, applied) ==
    [path |-> item.path, depth |-> item.depth, kind |-> item.kind,
     file_type |-> item.file_type, error |-> item.error, outcome |-> outcome,
     statuses |-> statuses, applied |-> applied]

\* Iterator::next of Walk: the loop of walk! until an entry or an error is
\* returned or the traversal ends.  negated tells which of the two bodies
\* runs.  The outcomes are [walk, log, ended].
RECURSIVE WalkLoop(_, _, _, _, _)
WalkLoop(tree, this, negated, w, seen) ==
    UNION {
        IF r.item.kind = "None"
        THEN {[walk |-> r.walk, log |-> seen, ended |-> TRUE]}
        ELSE IF r.item.kind = "Err"
        THEN {[walk |-> r.walk, log |-> Append(seen, Record(r.item, Errored, <<>>, <<>>)),
               ended |-> FALSE]}
        ELSE LET outcome == IF negated THEN WalkEntryNegation(this, r.item)
                            ELSE WalkEntry(this, r.item)
                 next == IF outcome = PrunedTree THEN SkipCurrentDir(r.walk) ELSE r.walk
                 log2 == Append(seen, Record(r.item, outcome, <<>>, <<>>))
             IN  IF outcome = Emitted
                 THEN {[walk |-> next, log |-> log2, ended |-> FALSE]}
                 ELSE WalkLoop(tree, this, negated, next, log2)
        : r \in WalkDirNext(tree, w)}

\* ------------------------------------------------------------------------
\* The file iterator over a tree and its combinators (walk/mod.rs)
\* ------------------------------------------------------------------------

\* JoinAndGetDepth::join_and_get_depth
JoinAndGetDepth(self, path) ==
    LET joined == PathJoin(self, path)
        depth == Len(PathComponents(joined))
    IN  [joined |-> joined,
         depth |-> IF IsAbsolute(path) THEN depth + 1
                   ELSE SatSub(depth, Len(PathComponents(self)))]

\* SplitAtDepth::split_at_depth: the ancestor that many components up, and
\* the rest of the path
SplitAtDepth(path, depth) ==
    LET components == PathComponents(path)
        ancestor == IF depth > Len(components) THEN EmptyPath
                    ELSE PathFromComponents(SubSeq(components, 1, Len(components) - depth))
    IN  [ancestor |-> ancestor, descendant |-> StripPrefix(path, ancestor)]

\* TreeEntry::root_relative_paths
RootRelativePaths(entry) == SplitAtDepth(EntryPath(entry), entry.depth)

Unbounded == [kind |-> "Unbounded", min |-> 0, max |-> 0, extent |-> 0]

\* DepthBehavior::Min(DepthMin(min))
DepthMin(min) == [kind |-> "Min", min |-> min, max |-> 0, extent |-> 0]

\* DepthBehavior::Max(DepthMax(max))
DepthMax(max) == [kind |-> "Max", min |-> 0, max |-> max, extent |-> 0]

\* DepthBehavior::MinMax(DepthMinMax { min, extent })
DepthMinMax(min, extent) == [kind |-> "MinMax", min |-> min, max |-> 0, extent |-> extent]

\* DepthBehavior::bounded: min and max are optional
Bounded(min, max) ==
    IF min /= None /\ max = None
    THEN (IF min[1] /= 0 THEN Some(DepthMin(min[1])) ELSE None)
    ELSE IF min = None /\ max /= None THEN Some(DepthMax(max[1]))
    ELSE IF min /= None /\ max /= None /\ min[1] <= max[1]
    THEN (IF min[1] /= 0 THEN Some(DepthMinMax(min[1], max[1] - min[1])) ELSE None)
    ELSE None

\* DepthMin::min_at_pivot
MinAtPivot(depth, pivot) == SatSub(depth.min, pivot)

\* DepthMax::max_at_pivot
MaxAtPivot(depth, pivot) == SatSub(depth.max, pivot)

\* DepthMinMax::max
DepthMinMaxMax(depth) ==
    IF depth.min + depth.extent > USIZE_MAX THEN USIZE_MAX ELSE depth.min + depth.extent

\* DepthMinMax::min_max_at_pivot
MinMaxAtPivot(depth, pivot) ==
    [min |-> SatSub(depth.min, pivot), max |-> SatSub(DepthMinMaxMax(depth), pivot)]

\* WalkTree::with_pivot_and_behavior
WalkTreeWithPivotAndBehavior(root, pivot, behavior) ==
    LET builder == WalkDirFollowLinks(WalkDirNew(root.comps), FollowLinks(behavior.link))
        depth == behavior.depth
    IN  [is_dir |-> FALSE,
         input |->
            CASE depth.kind = "Max" -> WalkDirMaxDepth(builder, MaxAtPivot(depth, pivot))
              [] depth.kind = "Min" -> WalkDirMinDepth(builder, MinAtPivot(depth, pivot))
              [] depth.kind = "MinMax" ->
                    WalkDirMaxDepth(
                        WalkDirMinDepth(builder, MinMaxAtPivot(depth, pivot).min),
                        MinMaxAtPivot(depth, pivot).max)
              [] depth.kind = "Unbounded" -> builder]

\* the walk of a glob as a file iterator: the tree is walked from the
\* directory joined with the invariant prefix, and the pivot is the number of
\* components of that prefix
GlobWalkTree(glob, directory, behavior) ==
    LET found == InvariantPrefixPath(glob)
        anchor == JoinAndGetDepth(directory, IF found = None THEN EmptyPath ELSE found[1])
    IN  WalkTreeWithPivotAndBehavior(anchor.joined, anchor.depth, behavior)

\* cancel_walk_tree does nothing
KeepWalkTree(tree) == tree

\* cancel_walk_tree skips whatever was yielded last
SkipWalkTree(tree) == [tree EXCEPT !.input = SkipCurrentDir(tree.input)]

\* WalkTree::cancel_walk_tree
CancelWalkTree(tree) ==
    IF tree.is_dir THEN [tree EXCEPT !.input = SkipCurrentDir(tree.input)] ELSE tree

\* WalkTree::next: the outcomes [item, tree] of one call
WalkTreeNext(fs, tree) ==
    {[item |-> r.item,
      tree |-> [is_dir |-> r.item.kind = "Ok" /\ r.item.file_type = "dir",
                input |-> r.walk]] :
        r \in WalkDirNext(fs, tree.input)}

Filtrate(item) == [sep |-> "Filtrate", item |-> item]

ResidueNode(item) == [sep |-> "Node", item |-> item]

ResidueTree(item) == [sep |-> "Tree", item |-> item]

\* the functions given to filter_entry in the model, by name: each maps an
\* entry to no residue, EntryResidue::File or EntryResidue::Tree
FilterFunction(f, entry) ==
    CASE f = "pass" -> None
      [] f = "file_dirs" -> IF entry.file_type = "dir" THEN Some("File") ELSE None
      [] f = "file_all" -> Some("File")
      [] f = "tree_b" ->
            IF entry.path /= <<>> /\ entry.path[Len(entry.path)] = NameB
            THEN Some("Tree") ELSE None
      [] f = "tree_c" ->
            IF entry.path /= <<>> /\ entry.path[Len(entry.path)] = NameC
            THEN Some("Tree") ELSE None

\* FilterAny::residue: the residue of an entry for the patterns of not
FilterAnyResidue(filter, entry) ==
    LET text == PathToText(RootRelativePaths(entry).descendant)
    IN  IF AnyIsMatch(filter.exhaustive, text) THEN Some("Tree")
        ELSE IF AnyIsMatch(filter.nonexhaustive, text) THEN Some("File")
        ELSE None

\* the filter of not for a set of patterns
FilterAny(patterns) ==
    [exhaustive |-> {tokens \in patterns : IsTerminal(tokens)},
     nonexhaustive |-> {tokens \in patterns : ~IsTerminal(tokens)}]

FilterEntry(f) == [kind |-> "FilterEntry", f |-> f, filter |-> FilterAny({})]

Not(patterns) == [kind |-> "Not", f |-> "", filter |-> FilterAny(patterns)]

\* From<EntryResidue> for TreeResidue
TreeResidueFrom(residue) ==
    IF residue = None THEN None
    ELSE IF residue[1] = "File" THEN Some("Node") ELSE Some("Tree")

\* Separation::filter_tree_by_substituent: the separation after the residue
\* that the function gave, and whether the walk of the tree is cancelled
FilterTreeBySubstituent(separation, residue) ==
    IF residue = None THEN [separation |-> separation, cancel |-> FALSE]
    ELSE IF residue[1] = "Tree"
    THEN IF separation.sep = "Tree" THEN [separation |-> separation, cancel |-> FALSE]
         ELSE [separation |-> ResidueTree(separation.item), cancel |-> TRUE]
    ELSE IF separation.sep = "Filtrate"
         THEN [separation |-> ResidueNode(separation.item), cancel |-> FALSE]
         ELSE [separation |-> separation, cancel |-> FALSE]

\* the residue that a combinator's function gives for an item
LayerResidue(layer, item) ==
    IF layer.kind = "FilterEntry" THEN FilterFunction(layer.f, item)
    ELSE FilterAnyResidue(layer.filter, item)

\* a feed that lets the residue of the function replace what the input fed
FilterFeedLatest(layer, separation) ==
    IF separation.item.kind = "Err"
    THEN [separation |-> separation, cancel |-> FALSE, applied |-> FALSE]
    ELSE LET residue == TreeResidueFrom(LayerResidue(layer, separation.item))
         IN  [separation |-> IF residue = None THEN Filtrate(separation.item)
                             ELSE IF residue[1] = "Node" THEN ResidueNode(separation.item)
                             ELSE ResidueTree(separation.item),
              cancel |-> residue = Some("Tree"),
              applied |-> TRUE]

\* a feed that gives errors to the function as it gives entries
FilterFeedErrors(layer, separation) ==
    LET filtered == FilterTreeBySubstituent(separation,
                        TreeResidueFrom(LayerResidue(layer, separation.item)))
    IN  [separation |-> filtered.separation, cancel |-> filtered.cancel,
         applied |-> TRUE]

\* FilterEntry::feed and Not::feed on what the input fed: an error passes,
\* anything else is given to the function and filtered by its residue
FilterFeed(layer, separation) ==
    IF separation.sep = "Filtrate" /\ separation.item.kind = "Err"
    THEN [separation |-> separation, cancel |-> FALSE, applied |-> FALSE]
    ELSE LET residue == LayerResidue(layer, separation.item)
             filtered == FilterTreeBySubstituent(separation, TreeResidueFrom(residue))
         IN  [separation |-> filtered.separation, cancel |-> filtered.cancel,
              applied |-> TRUE]

\* a file iterator: the walk of the tree and the combinators over it, the
\* first the nearest to the tree
FileIterator(tree, filters) ==
    [is_dir |-> tree.is_dir, input |-> tree.input, filters |-> filters]

\* the feed of the outermost combinator for what the tree fed: each
\* combinator in turn, and cancel_walk_tree passed down to the tree
RECURSIVE FeedThrough(_, _, _)
FeedThrough(filters, k, fed) ==
    IF k > Len(filters) THEN fed
    ELSE LET next == FilterFeed(filters[k], fed.separation)
         IN  FeedThrough(filters, k + 1,
                [separation |-> next.separation,
                 tree |-> IF next.cancel THEN CancelWalkTree(fed.tree) ELSE fed.tree,
                 statuses |-> Append(fed.statuses, next.separation.sep),
                 applied |-> Append(fed.applied, next.applied)])

\* the outcome of what the outermost combinator feeds
FeedOutcome(separation) ==
    IF separation.sep = "Filtrate"
    THEN (IF separation.item.kind = "Err" THEN Errored ELSE Emitted)
    ELSE IF separation.sep = "Node" THEN PrunedNode ELSE PrunedTree

\* Iterator::next of the outermost combinator: it feeds until there is
\* filtrate or the walk of the tree ends.  The outcomes are [tree, log, ended].
RECURSIVE FiltrateLoop(_, _, _, _)
FiltrateLoop(fs, filters, tree, seen) ==
    UNION {
        IF r.item.kind = "None"
        THEN {[tree |-> r.tree, log |-> seen, ended |-> TRUE]}
        ELSE LET fed == FeedThrough(filters, 1,
                            [separation |-> Filtrate(r.item), tree |-> r.tree,
                             statuses |-> <<"Filtrate">>, applied |-> <<>>])
                 log2 == Append(seen, Record(r.item, FeedOutcome(fed.separation),
                                             fed.statuses, fed.applied))
             IN  IF fed.separation.sep = "Filtrate"
                 THEN {[tree |-> fed.tree, log |-> log2, ended |-> FALSE]}
                 ELSE FiltrateLoop(fs, filters, fed.tree, log2)
        : r \in WalkTreeNext(fs, tree)}

\* ------------------------------------------------------------------------
\* The globs, negations, behaviors and combinators that the walks are given
\* ------------------------------------------------------------------------

Lit(c) == Literal(<<c>>, FALSE)

\* **
GlobTree == <<WildcardTree(FALSE)>>

\* a/**
GlobATree == <<Lit("a"), WildcardTree(TRUE)>>

\* b/**
GlobBTree == <<Lit("b"), WildcardTree(TRUE)>>

\* a/b
GlobAB == <<Lit("a"), Separator, Lit("b")>>

\* a
GlobA == <<Lit("a")>>

\* */b
GlobStarB == <<WildcardZeroOrMore, Separator, Lit("b")>>

\* */b/c
GlobStarBC == <<WildcardZeroOrMore, Separator, Lit("b"), Separator, Lit("c")>>

\* /*/b/c
GlobRootedStarBC ==
    <<Separator, WildcardZeroOrMore, Separator, Lit("b"), Separator, Lit("c")>>

\* /a
GlobRootedA == <<Separator, Lit("a")>>

\* **/c
GlobTreeC == <<WildcardTree(FALSE), Lit("c")>>

\* {a,b}/c
GlobAltC == <<Alternative(<< <<Lit("a")>>, <<Lit("b")>> >>), Separator, Lit("c")>>

\* b/*/a
GlobBStarA == <<Lit("b"), Separator, WildcardZeroOrMore, Separator, Lit("a")>>

\* a/b/**
GlobABTree == <<Lit("a"), Separator, Lit("b"), WildcardTree(TRUE)>>

Globs ==
    {GlobTree, GlobATree, GlobAB, GlobStarB, GlobStarBC, GlobRootedStarBC, GlobTreeC,
     GlobAltC, GlobBStarA, GlobABTree}

\* the sets of patterns given to not
Negations ==
    {{}, {GlobATree}, {GlobA}, {GlobRootedA}, {GlobTreeC}, {GlobBTree, GlobStarB}}

\* the largest depth that a walk is bounded by
MaxDepth == 2

Depths == 0..MaxDepth

\* the directory that the walks are given: the root of the file system
Directory == Path(TRUE, <<>>)

\* the walks of walk.rs: a glob, maybe with a negation, a maximum depth and
\* a link behavior, over a tree
WalkScenarios ==
    {[engine |-> "Walk", fs |-> "plain", glob |-> glob, nots |-> nots,
      depth |-> USIZE_MAX, bounds |-> Unbounded, link |-> ReadFile,
      filters |-> <<>>] :
        glob \in Globs, nots \in {None} \cup {Some(n) : n \in Negations}}
    \cup
    {[engine |-> "Walk", fs |-> "plain", glob |-> glob, nots |-> nots,
      depth |-> depth, bounds |-> Unbounded, link |-> ReadFile, filters |-> <<>>] :
        glob \in {GlobTree, GlobATree, GlobAB, GlobABTree, GlobStarB},
        nots \in {None, Some({GlobA})}, depth \in Depths}
    \cup
    {[engine |-> "Walk", fs |-> fs, glob |-> glob, nots |-> nots,
      depth |-> USIZE_MAX, bounds |-> Unbounded, link |-> link, filters |-> <<>>] :
        fs \in {"denied", "linked"}, glob \in {GlobTree, GlobBTree},
        nots \in {None, Some({GlobTreeC}), Some({GlobBTree})},
        link \in {ReadFile, ReadTarget}}

\* the depth behaviors: unbounded and what DepthBehavior::bounded makes
DepthBehaviors ==
    {Unbounded}
    \cup {b[1] : b \in {Bounded(min, max) :
                            min \in {None} \cup {Some(d) : d \in Depths},
                            max \in {None} \cup {Some(d) : d \in Depths}} \ {None}}

FilterFunctions == {"pass", "file_dirs", "file_all", "tree_b", "tree_c"}

\* the chains of combinators over the walk of a tree
FilterChains ==
    {<<>>}
    \cup {<<FilterEntry(f)>> : f \in FilterFunctions}
    \cup {<<Not(n)>> : n \in Negations}
    \cup {<<FilterEntry(f), FilterEntry(g)>> : f \in FilterFunctions, g \in FilterFunctions}
    \cup {<<FilterEntry(f), Not(n)>> : f \in FilterFunctions, n \in {{GlobBTree}, {GlobA}}}

\* the walks of walk/mod.rs: a tree walked from where a glob is anchored,
\* with a depth behavior and a link behavior, under a chain of combinators
TreeScenarios ==
    {[engine |-> "WalkTree", fs |-> "plain", glob |-> GlobTree, nots |-> None,
      depth |-> USIZE_MAX, bounds |-> Unbounded, link |-> ReadFile,
      filters |-> filters] :
        filters \in FilterChains}
    \cup
    {[engine |-> "WalkTree", fs |-> "plain", glob |-> glob, nots |-> None,
      depth |-> USIZE_MAX, bounds |-> bounds, link |-> ReadFile,
      filters |-> filters] :
        glob \in {GlobTree, GlobATree, GlobABTree}, bounds \in DepthBehaviors,
        filters \in {<<>>, <<FilterEntry("tree_b")>>}}
    \cup
    {[engine |-> "WalkTree", fs |-> fs, glob |-> GlobTree, nots |-> None,
      depth |-> USIZE_MAX, bounds |-> Unbounded, link |-> link, filters |-> filters] :
        fs \in {"denied", "linked"}, link \in {ReadFile, ReadTarget},
        filters \in {<<>>, <<FilterEntry("file_all")>>, <<Not({GlobBTree})>>,
                     <<FilterEntry("file_dirs"), FilterEntry("tree_b")>>}}

Scenarios == WalkScenarios \cup TreeScenarios

\* ------------------------------------------------------------------------
\* The state: what a walk was made from (args: the maximum depth of a Walk
\* is depth and the depth behavior of a WalkTree is bounds), the walk itself (this: a
\* Walk, or a WalkTree under its combinators), what it has recorded of each
\* item of the traversal so far (log) and whether it has ended
\* ------------------------------------------------------------------------

VARIABLES args, this, log, ended

vars == <<args, this, log, ended>>

\* the walk that the arguments make
Construct(scenario) ==
    IF scenario.engine = "Walk"
    THEN LET made == WalkNew(scenario.glob, Directory,
                             [depth |-> scenario.depth, link |-> scenario.link])
         IN  IF scenario.nots = None THEN made ELSE WalkNot(made, scenario.nots[1])
    ELSE FileIterator(GlobWalkTree(scenario.glob, Directory,
                                   [depth |-> scenario.bounds, link |-> scenario.link]),
                      scenario.filters)

Init ==
    \E scenario \in Scenarios :
        /\ args = scenario
        /\ this = Construct(scenario)
        /\ log = <<>>
        /\ ended = FALSE

\* Iterator::next of Walk<'_, ()>
WalkNext ==
    /\ args.engine = "Walk"
    /\ this.negation = None
    /\ ~ended
    /\ \E r \in WalkLoop(FileTree(args.fs), this, FALSE, this.walk, log) :
        /\ this' = [this EXCEPT !.walk = r.walk]
        /\ log' = r.log
        /\ ended' = r.ended
    /\ UNCHANGED args

\* Iterator::next of Walk<'_, Negation>
WalkNegationNext ==
    /\ args.engine = "Walk"
    /\ this.negation /= None
    /\ ~ended
    /\ \E r \in WalkLoop(FileTree(args.fs), this, TRUE, this.walk, log) :
        /\ this' = [this EXCEPT !.walk = r.walk]
        /\ log' = r.log
        /\ ended' = r.ended
    /\ UNCHANGED args

\* Iterator::next of a file iterator: WalkTree, FilterEntry or Not
FiltrateNext ==
    /\ args.engine = "WalkTree"
    /\ ~ended
    /\ \E r \in FiltrateLoop(FileTree(args.fs), this.filters,
                             [is_dir |-> this.is_dir, input |-> this.input], log) :
        /\ this' = FileIterator(r.tree, this.filters)
        /\ log' = r.log
        /\ ended' = r.ended
    /\ UNCHANGED args

Next == WalkNext \/ WalkNegationNext \/ FiltrateNext

Spec == Init /\ [][Next]_vars

\* ------------------------------------------------------------------------
\* Properties of the walks
\* ------------------------------------------------------------------------

Records == 1..Len(log)

IsWalk == args.engine = "Walk"

IsWalkTree == args.engine = "WalkTree"

\* q lies beneath p
Beneath(q, p) == Len(q) > Len(p) /\ IsPrefixSeq(p, q)

\* the text that the walk of walk.rs matches for a record: its path relative
\* to the prefix of the walk
CandidateText(record) ==
    PathToText(StripPrefix(Path(TRUE, record.path), this.prefix))

IsDirRecord(record) == record.kind = "Ok" /\ record.file_type = "dir"

\* nothing beneath the i-th record is recorded
NothingBeneath(i) == \A j \in Records : ~Beneath(log[j].path, log[i].path)

\* C1: every entry that a Walk emits, with or without a negation, has a path
\* that, relative to the prefix of the walk, the whole pattern captures
C1_MatchEmission ==
    IsWalk =>
        \A i \in Records :
            log[i].outcome = Emitted =>
                Captures(this.pattern, CandidateText(log[i])) /= None

\* a walk with a negation and compiled components has emitted an entry
\* beneath its root
C1_Witness ==
    /\ IsWalk
    /\ this.negation /= None
    /\ this.components /= <<>>
    /\ \E i \in Records : log[i].outcome = Emitted /\ log[i].depth >= 1

\* the names of a record's path relative to the prefix of the walk
CandidateNames(record) == StripPrefix(Path(TRUE, record.path), this.prefix).comps

\* the k-th name of the record fails the k-th compiled pattern, which is not
\* the last
FailsComponent(record, k) ==
    /\ k <= Len(CandidateNames(record))
    /\ k < Len(this.components)
    /\ ~IsMatch(this.components[k], CandidateNames(record)[k])

\* C2: a visited directory with a name at a place k that fails the k-th
\* compiled pattern, k not the last, is not emitted, the descent into it is
\* cancelled and nothing beneath it is visited
C2_Pruning ==
    IsWalk =>
        \A i \in Records :
            (IsDirRecord(log[i]) /\ \E k \in 1..Len(this.components) : FailsComponent(log[i], k))
                => (log[i].outcome = PrunedTree /\ NothingBeneath(i))

\* the record matches a terminal pattern of the negation of the walk, or an
\* exhaustive pattern of a not over the walk of the tree
MatchesTerminal(record) ==
    \/ /\ IsWalk
       /\ this.negation /= None
       /\ AnyIsMatch(this.negation[1].terminal, CandidateText(record))
    \/ /\ IsWalkTree
       /\ \E k \in 1..Len(this.filters) :
            /\ this.filters[k].kind = "Not"
            /\ FilterAnyResidue(this.filters[k].filter, record) = Some("Tree")

\* C3: a visited directory whose path matches the terminal negation is not
\* emitted, the descent into it is cancelled and nothing beneath it is ever
\* visited
C3_TerminalNegation ==
    \A i \in Records :
        (IsDirRecord(log[i]) /\ MatchesTerminal(log[i]))
            => (log[i].outcome = PrunedTree /\ NothingBeneath(i))

\* the walk of ** with a terminal negation has ended: a directory with
\* files beneath it, which the glob accepts, matched the negation
C3_Witness ==
    /\ ended
    /\ IsWalk
    /\ args.glob = GlobTree
    /\ \E i \in Records :
        /\ IsDirRecord(log[i])
        /\ MatchesTerminal(log[i])
        /\ ReadDir(FileTree(args.fs), log[i].path) /= {}

\* the record is an entry that matches the nonterminal negation of the walk
\* and not the terminal negation
MatchesNonterminalOnly(record) ==
    /\ IsWalk
    /\ this.negation /= None
    /\ record.kind = "Ok"
    /\ AnyIsMatch(this.negation[1].nonterminal, CandidateText(record))
    /\ ~AnyIsMatch(this.negation[1].terminal, CandidateText(record))

\* the paths of the files of the tree that is walked
FsPaths == DOMAIN FileTree(args.fs)

\* the whole pattern accepts the path and no pattern of the negation matches it
Accepted(q) ==
    LET text == PathToText(StripPrefix(Path(TRUE, q), this.prefix))
    IN  /\ Captures(this.pattern, text) /= None
        /\ ~AnyIsMatch(args.nots[1], text)

\* the path is within the maximum depth of the walk, and no error was
\* yielded for it or for a directory above it
InReach(q) ==
    /\ Len(q) <= args.depth
    /\ \A j \in Records : log[j].kind = "Err" => ~IsPrefixSeq(log[j].path, q)

\* C4: an entry that matches the nonterminal negation and not the terminal
\* one is not emitted and the descent into it is not cancelled: when the walk
\* has ended, every file beneath it that the pattern accepts and no negation
\* matches has been emitted (files beyond the maximum depth or behind an
\* error of the traversal apart)
C4_NonterminalNegation ==
    \A i \in Records :
        MatchesNonterminalOnly(log[i]) =>
            /\ log[i].outcome = PrunedNode
            /\ ended =>
                \A q \in FsPaths :
                    (Beneath(q, log[i].path) /\ Accepted(q) /\ InReach(q)) =>
                        \E j \in Records : log[j].path = q /\ log[j].outcome = Emitted

\* how far a separation is along unfiltered, filtered file, filtered tree
Rank(sep) == CASE sep = "Filtrate" -> 0 [] sep = "Node" -> 1 [] sep = "Tree" -> 2

\* how far the residue of a function is along the same
ResidueRank(residue) ==
    IF residue = None THEN 0 ELSE IF residue[1] = "Node" THEN 1 ELSE 2

\* C5: along a chain of filter_entry and not, what an entry is separated
\* into only moves forward from filtrate to node residue to tree residue: an
\* entry that a combinator discarded is not emitted, a later residue that is
\* no greater changes nothing, and a later tree residue for a directory in
\* node residue makes it tree residue and nothing beneath it is read
C5_Monotonic ==
    IsWalkTree =>
        \A i \in Records : \A k \in 1..Len(this.filters) :
            log[i].kind = "Ok" =>
                LET before == log[i].statuses[k]
                    after == log[i].statuses[k + 1]
                    residue == TreeResidueFrom(LayerResidue(this.filters[k], log[i]))
                IN  /\ Rank(before) <= Rank(after)
                    /\ before /= "Filtrate" => log[i].outcome /= Emitted
                    /\ ResidueRank(residue) <= Rank(before) => after = before
                    /\ (before = "Node" /\ residue = Some("Tree")) =>
                            /\ after = "Tree"
                            /\ log[i].outcome = PrunedTree
                            /\ IsDirRecord(log[i]) => NothingBeneath(i)

\* a walk has ended in which a directory with files in it was node residue
\* of one combinator and made tree residue by the next, and another entry in
\* residue was given a lesser residue by a later combinator
C5_Witness ==
    /\ IsWalkTree
    /\ ended
    /\ Len(this.filters) = 2
    /\ \E i \in Records :
        /\ IsDirRecord(log[i])
        /\ ReadDir(FileTree(args.fs), log[i].path) /= {}
        /\ log[i].statuses = <<"Filtrate", "Node", "Tree">>
    /\ \E i \in Records :
        /\ log[i].statuses[2] /= "Filtrate"
        /\ ResidueRank(TreeResidueFrom(LayerResidue(this.filters[2], log[i])))
                < Rank(log[i].statuses[2])

\* q is in the same directory as p
Sibling(q, p) ==
    /\ Len(p) >= 1
    /\ Len(q) = Len(p)
    /\ q /= p
    /\ SubSeq(q, 1, Len(q) - 1) = SubSeq(p, 1, Len(p) - 1)

\* C6: an error of the traversal is yielded by the walk and through every
\* combinator: it stays filtrate, no function is applied to it, and when the
\* walk has ended every other file of the directory of the error, when that
\* directory is within the walk, has been read
C6_ErrorsInline ==
    \A i \in Records :
        log[i].kind = "Err" =>
            /\ log[i].outcome = Errored
            /\ \A k \in 1..Len(log[i].applied) : ~log[i].applied[k]
            /\ \A k \in 1..Len(log[i].statuses) : log[i].statuses[k] = "Filtrate"
            /\ ended =>
                \A q \in FsPaths :
                    (log[i].depth >= 1 /\ Sibling(q, log[i].path)) =>
                        \E j \in Records : log[j].path = q

\* a walk under a combinator has ended: it yielded an error at a path for
\* which the function of the combinator gives a residue, and read entries
\* after the error
C6_Witness ==
    /\ IsWalkTree
    /\ ended
    /\ \E i \in Records :
        /\ log[i].kind = "Err"
        /\ log[i].depth >= 1
        /\ \E k \in 1..Len(this.filters) : LayerResidue(this.filters[k], log[i]) /= None
        /\ \E j \in Records : j > i /\ log[j].kind = "Ok"

\* the least depth, from the directory that the walk is given, that the
\* arguments of the walk allow
MinBound ==
    IF IsWalkTree /\ args.bounds.kind \in {"Min", "MinMax"} THEN args.bounds.min ELSE 0

\* the greatest depth that the arguments of the walk allow
MaxBound ==
    IF IsWalk THEN args.depth
    ELSE IF args.bounds.kind = "Max" THEN args.bounds.max
    ELSE IF args.bounds.kind = "MinMax" THEN args.bounds.min + args.bounds.extent
    ELSE USIZE_MAX

\* the record is an entry that the walk of the glob emits: of what the walk
\* of a tree yields, the glob takes the paths that it matches
EmittedByGlob(record) ==
    /\ record.outcome = Emitted
    /\ IsMatch(args.glob, PathToText(StripPrefix(Path(TRUE, record.path), Directory)))

\* C7: no entry is emitted at a depth less than the minimum or greater than
\* the maximum, whatever the invariant prefix of the glob; when the maximum is
\* less than the number of components of the prefix nothing is emitted
C7_DepthBounds ==
    \A i \in Records :
        EmittedByGlob(log[i]) =>
            /\ MinBound <= Len(log[i].path)
            /\ Len(log[i].path) <= MaxBound

\* C8: a directory is yielded before everything beneath it, and when the
\* descent into a directory is cancelled as it is yielded nothing beneath it
\* appears in the rest of the walk
C8_Ordering ==
    /\ \A i \in Records : \A j \in Records :
            Beneath(log[j].path, log[i].path) => i < j
    /\ \A i \in Records :
            (IsDirRecord(log[i]) /\ log[i].outcome = PrunedTree) => NothingBeneath(i)

\* a walk of a tree has ended: under a combinator a directory with files in
\* it was cancelled, and another directory was followed by what is beneath it
C8_Witness ==
    /\ IsWalkTree
    /\ ended
    /\ \E i \in Records :
        /\ IsDirRecord(log[i])
        /\ log[i].outcome = PrunedTree
        /\ ReadDir(FileTree(args.fs), log[i].path) /= {}
    /\ \E i \in Records : \E j \in Records :
        /\ log[i].outcome = Emitted
        /\ Beneath(log[j].path, log[i].path)

Outcomes == {PrunedNode, PrunedTree, Emitted, Errored}

\* C9: every item of the traversal is recorded once, with one of the four
\* outcomes (an error exactly when it is errored), so nothing is emitted
\* twice; and no file in a directory that was pruned as a tree is read
C9_SingleOutcome ==
    /\ \A i \in Records : \A j \in Records :
            (log[i].path = log[j].path /\ log[i].kind = log[j].kind) => i = j
    /\ \A i \in Records :
            /\ log[i].outcome \in Outcomes
            /\ log[i].kind = "Err" <=> log[i].outcome = Errored
            /\ (IsDirRecord(log[i]) /\ log[i].outcome = PrunedTree) =>
                    \A j \in Records :
                        ~(Len(log[j].path) = Len(log[i].path) + 1
                            /\ IsPrefixSeq(log[i].path, log[j].path))

\* a walk of a glob has ended with entries emitted, pruned as nodes and
\* pruned as trees, among them a directory with files in it
C9_Witness ==
    /\ IsWalk
    /\ ended
    /\ \E i \in Records : log[i].outcome = Emitted
    /\ \E i \in Records : log[i].outcome = PrunedNode
    /\ \E i \in Records :
        /\ IsDirRecord(log[i])
        /\ log[i].outcome = PrunedTree
        /\ ReadDir(FileTree(args.fs), log[i].path) /= {}

\* there is a symbolic link at the path
IsLink(q) == Exists(FileTree(args.fs), q) /\ LinkFileType(FileTree(args.fs), q) = "link"

\* the link at the path leads to a directory above it
IsReentrant(q) ==
    /\ IsLink(q)
    /\ Beneath(q, RealPath(FileTree(args.fs), q, TRUE))

\* under ReadFile a link is an entry that is a link, and nothing is read
\* beneath it; under ReadTarget a link to a directory above it is an error of
\* a loop and nothing is read beneath it; and no two entries are the same
\* file
LinksAreNotFollowed ==
    /\ \A i \in Records :
        /\ (args.link = ReadFile /\ IsLink(log[i].path)) =>
                /\ log[i].kind = "Ok"
                /\ log[i].file_type = "link"
                /\ NothingBeneath(i)
        /\ (args.link = ReadTarget /\ IsReentrant(log[i].path)) =>
                /\ log[i].kind = "Err"
                /\ log[i].error = "Loop"
                /\ log[i].outcome = Errored
                /\ NothingBeneath(i)
    /\ \A i \in Records : \A j \in Records :
        (/\ log[i].kind = "Ok"
         /\ log[j].kind = "Ok"
         /\ RealPath(FileTree(args.fs), log[i].path, args.link = ReadTarget)
                = RealPath(FileTree(args.fs), log[j].path, args.link = ReadTarget))
            => i = j

\* a call of next that does not end the walk records an item more
PullReadsMore == ~ended' => Len(log') > Len(log)

\* C10: links are not followed as LinksAreNotFollowed says, and the walk of
\* a tree, with a link to a directory above it or without, ends: every call
\* of next that does not end it reads an item more, and there are never more
\* items than an entry and an error for each file of the tree
C10_LinkBehavior ==
    /\ [](LinksAreNotFollowed /\ Len(log) <= 2 * Cardinality(FsPaths))
    /\ [][PullReadsMore]_vars

\* the walk of the tree with the link b/c/b to b has ended under ReadTarget
\* with the error of the loop, and entries were read after it
C10_Witness ==
    /\ ended
    /\ args.fs = "linked"
    /\ args.link = ReadTarget
    /\ \E i \in Records :
        /\ log[i].error = "Loop"
        /\ IsReentrant(log[i].path)
        /\ \E j \in Records : j > i

\* the whole pattern accepts the path, relative to the prefix of the walk
GlobAccepts(q) ==
    Captures(this.pattern, PathToText(StripPrefix(Path(TRUE, q), this.prefix))) /= None

\* the walk is of a glob alone, with the default behavior, over the tree
\* without links or errors
IsDefaultWalk ==
    /\ IsWalk
    /\ args.fs = "plain"
    /\ args.nots = None
    /\ args.depth = USIZE_MAX
    /\ args.link = ReadFile

\* C11: in a walk of a glob with the default behavior over a tree without
\* links or errors, no entry that the whole pattern accepts is pruned and no
\* descent into a directory above such an entry is cancelled; when the walk
\* has ended the entries emitted are exactly the files of the tree, its root
\* included, that the whole pattern accepts
C11_Completeness ==
    IsDefaultWalk =>
        /\ \A i \in Records :
            /\ log[i].outcome \in {PrunedNode, PrunedTree} => ~GlobAccepts(log[i].path)
            /\ log[i].outcome = PrunedTree =>
                \A q \in FsPaths : Beneath(q, log[i].path) => ~GlobAccepts(q)
        /\ ended =>
            \A q \in FsPaths :
                GlobAccepts(q) <=> \E i \in Records : log[i].path = q /\ log[i].outcome = Emitted

\* ------------------------------------------------------------------------
\* Partitioning of a token sequence (token.rs)
\* ------------------------------------------------------------------------

\* the token as it is, rooted or not
KeepRoot(token) == token

\* TokenKind::unroot: the token after the call
Unroot(token) ==
    IF IsTree(token) THEN [token EXCEPT !.is_rooted = FALSE] ELSE token

\* the number of tokens at the head of the sequence that are separators or
\* invariant, up to a tree wildcard
RECURSIVE LeadingInvariantTokens(_)
LeadingInvariantTokens(tokens) ==
    IF tokens = <<>> \/ IsTree(Head(tokens)) THEN 0
    ELSE IF Head(tokens).kind = "Separator" \/ IsInvariant(TokenVariance(Head(tokens)))
    THEN 1 + LeadingInvariantTokens(Tail(tokens))
    ELSE 0

\* the loop of token::invariant_prefix_upper_bound from the n-th token on
\* (n counts from 0); separator is the index of the last separator seen
RECURSIVE UpperBoundFrom(_, _, _)
UpperBoundFrom(tokens, n, separator) ==
    IF n >= Len(tokens) THEN Len(tokens)
    ELSE LET token == tokens[n + 1]
         IN  IF token.kind = "Separator" THEN UpperBoundFrom(tokens, n + 1, Some(n))
             ELSE IF IsTree(token) THEN n
             ELSE IF IsInvariant(TokenVariance(token))
             THEN UpperBoundFrom(tokens, n + 1, separator)
             ELSE IF separator /= None THEN separator[1] + 1 ELSE 0

\* token::invariant_prefix_upper_bound
InvariantPrefixUpperBound(tokens) == UpperBoundFrom(tokens, 0, None)

\* Vec::drain(0..n): what is left of the sequence
Drain(tokens, n) == Skip(tokens, n)

\* Tokenized::partition: the prefix and the Tokenized that is left
Partition(self) ==
    LET found == InvariantPrefixPath(self.tokens)
        prefix == IF found = None THEN EmptyPath ELSE found[1]
        drained == Drain(self.tokens, InvariantPrefixUpperBound(self.tokens))
        unrooted == IF drained = <<>> THEN drained
                    ELSE <<Unroot(Head(drained))>> \o Tail(drained)
    IN  [prefix |-> prefix, tokenized |-> [self EXCEPT !.tokens = unrooted]]

\* the variance of the tokens as if they were the branches of an alternative
TokenizedDisjunctiveVariance(self) == DisjunctiveVariance(MapVariance(self.tokens))

\* Tokenized::variance
TokenizedVariance(self) == TokensVariance(self.tokens)

\* ------------------------------------------------------------------------
\* The expressions, variances and depths that the functions over tokens are
\* given: the expressions of the tests of token.rs and walk.rs and more of
\* their kind, each as the tokens that the parser makes of it
\* ------------------------------------------------------------------------

\* <tokens> and <tokens:0,>
ZeroOrMoreOf(tokens) == Repetition(tokens, 0, None)

\* the empty expression
ExprEmpty == <<>>

\* a/<*/>*
ExprARepStar ==
    <<Lit("a"), Separator, ZeroOrMoreOf(<<WildcardZeroOrMore, Separator>>), WildcardZeroOrMore>>

\* a/<<?>/>*
ExprARepRepOne ==
    <<Lit("a"), Separator,
      ZeroOrMoreOf(<<ZeroOrMoreOf(<<WildcardOne>>), Separator>>), WildcardZeroOrMore>>

\* a/**/b
ExprATreeB == <<Lit("a"), WildcardTree(TRUE), Lit("b")>>

\* a/*
ExprAStar == <<Lit("a"), Separator, WildcardZeroOrMore>>

\* a/<?>
ExprARepOne == <<Lit("a"), Separator, ZeroOrMoreOf(<<WildcardOne>>)>>

\* a</**/b>
ExprARepTreeB == <<Lit("a"), ZeroOrMoreOf(<<WildcardTree(TRUE), Lit("b")>>)>>

\* a</**/b:1,2>
ExprABoundedRepTreeB == <<Lit("a"), Repetition(<<WildcardTree(TRUE), Lit("b")>>, 1, Some(1))>>

\* </**/b:2>
ExprExactRepTreeB == <<Repetition(<<WildcardTree(TRUE), Lit("b")>>, 2, Some(0))>>

\* {a/**,b}
ExprAltTree == <<Alternative(<< <<Lit("a"), WildcardTree(TRUE)>>, <<Lit("b")>> >>)>>

\* {<a/**:1,2>,b}/c
ExprAltRepTree ==
    <<Alternative(<< <<Repetition(<<Lit("a"), WildcardTree(TRUE)>>, 1, Some(1))>>,
                     <<Lit("b")>> >>),
      Separator, Lit("c")>>

\* a/<?/>
ExprARepOneSep == <<Lit("a"), Separator, ZeroOrMoreOf(<<WildcardOne, Separator>>)>>

\* **/a
ExprTreeA == <<WildcardTree(FALSE), Lit("a")>>

\* /**/a
ExprRootedTreeA == <<WildcardTree(TRUE), Lit("a")>>

\* /a/b
ExprRootedAB == <<Separator, Lit("a"), Separator, Lit("b")>>

\* /*
ExprRootedStar == <<Separator, WildcardZeroOrMore>>

\* a/*b
ExprAStarB == <<Lit("a"), Separator, WildcardZeroOrMore, Lit("b")>>

\* a/b*
ExprABStar == <<Lit("a"), Separator, Lit("b"), WildcardZeroOrMore>>

\* a/b/*/c
ExprABStarC ==
    <<Lit("a"), Separator, Lit("b"), Separator, WildcardZeroOrMore, Separator, Lit("c")>>

\* a*
ExprAThenStar == <<Lit("a"), WildcardZeroOrMore>>

\* a?/b
ExprAOneB == <<Lit("a"), WildcardOne, Separator, Lit("b")>>

\* <*/>*
ExprRepStar == <<ZeroOrMoreOf(<<WildcardZeroOrMore, Separator>>), WildcardZeroOrMore>>

\* <<?>/>*
ExprRepRepOne ==
    <<ZeroOrMoreOf(<<ZeroOrMoreOf(<<WildcardOne>>), Separator>>), WildcardZeroOrMore>>

\* <a*/>*
ExprRepAStar ==
    <<ZeroOrMoreOf(<<Lit("a"), WildcardZeroOrMore, Separator>>), WildcardZeroOrMore>>

\* <a/:2>b*
ExprExactRepAB ==
    <<Repetition(<<Lit("a"), Separator>>, 2, Some(0)), Lit("b"), WildcardZeroOrMore>>

\* a/<b/:1>c*
ExprAExactRepBC ==
    <<Lit("a"), Separator, Repetition(<<Lit("b"), Separator>>, 1, Some(0)), Lit("c"),
      WildcardZeroOrMore>>

\* <a:1,2>/b
ExprBoundedRepAB == <<Repetition(<<Lit("a")>>, 1, Some(1)), Separator, Lit("b")>>

\* <?:2>
ExprExactRepOne == <<Repetition(<<WildcardOne>>, 2, Some(0))>>

\* {a,a}/*
ExprAltAAStar ==
    <<Alternative(<< <<Lit("a")>>, <<Lit("a")>> >>), Separator, WildcardZeroOrMore>>

\* /{/a,b}
ExprRootedAltRooted ==
    <<Separator, Alternative(<< <<Separator, Lit("a")>>, <<Lit("b")>> >>)>>

\* /</**/a>
ExprRootedRepTree == <<Separator, ZeroOrMoreOf(<<WildcardTree(TRUE), Lit("a")>>)>>

\* a/b*/**
ExprABStarTree ==
    <<Lit("a"), Separator, Lit("b"), WildcardZeroOrMore, WildcardTree(TRUE)>>

\* [a]/[ab]
ExprClasses ==
    <<Class(FALSE, <<ArchetypeCharacter("a")>>), Separator,
      Class(FALSE, <<ArchetypeCharacter("a"), ArchetypeCharacter("b")>>)>>

Expressions ==
    {ExprEmpty, GlobTree, GlobATree, ExprARepStar, ExprARepRepOne, ExprATreeB, ExprAStar,
     ExprARepOne, ExprARepTreeB, ExprABoundedRepTreeB, ExprExactRepTreeB, ExprAltTree,
     ExprAltRepTree, ExprARepOneSep, ExprTreeA, ExprRootedTreeA, ExprRootedAB,
     ExprRootedStar, GlobAB, GlobA, ExprAStarB, ExprABStar, ExprABStarC, ExprAThenStar,
     GlobStarB, ExprAOneB, ExprRepStar, ExprRepRepOne, ExprRepAStar, ExprExactRepAB,
     ExprAExactRepBC, ExprBoundedRepAB, ExprExactRepOne, ExprAltAAStar, GlobAltC,
     ExprRootedAltRooted, ExprRootedRepTree, ExprABStarTree, ExprClasses}

\* ------------------------------------------------------------------------
\* The parser (token.rs parse): the expression is a sequence of characters,
\* the input a location in it with the state of the parser, and a parser
\* gives None or what it parsed with the input that is left
\* ------------------------------------------------------------------------

\* Wildcard::ZeroOrMore(Evaluation::Lazy)
WildcardZeroOrMoreLazy ==
    [kind |-> "Wildcard", wildcard |-> "ZeroOrMore", evaluation |-> "Lazy"]

\* Input::new with ParserState::default
InputNew ==
    [location |-> 0, is_case_insensitive |-> PATHS_ARE_CASE_INSENSITIVE,
     subexpression |-> 0]

Parsed(input, value) == Some([input |-> input, value |-> value])

\* supreme::tag: the text stands at the location of the input
HasTag(e, input, tag) ==
    /\ input.location + Len(tag) <= Len(e)
    /\ SubSeq(e, input.location + 1, input.location + Len(tag)) = tag

Advance(input, n) == [input EXCEPT !.location = @ + n]

\* the terminator that glob is given: combinator::eof at the top, a peek at
\* ":" or ">" in a repetition and at "," or "}" in an alternative; none of
\* them consumes input
Terminates(e, input, terminator) ==
    CASE terminator = "eof" -> input.location = Len(e)
      [] terminator = "repetition" ->
            HasTag(e, input, <<":">>) \/ HasTag(e, input, <<">">>)
      [] terminator = "alternative" ->
            HasTag(e, input, <<",">>) \/ HasTag(e, input, <<"}">>)

\* boe: the input stands where its sub-expression began
Boe(input) == input.subexpression = input.location

\* a toggle that writes no state
ToggleNothing(input, toggle, with_state) == input

\* the toggle of flags_with_state writes the state, that of
\* flags_without_state does not
Toggle(input, toggle, with_state) ==
    IF with_state THEN [input EXCEPT !.is_case_insensitive = toggle] ELSE input

\* many1 of "i" and "-i" in flags: the input after the toggles that stand
\* there
RECURSIVE Toggles(_, _, _)
Toggles(e, input, with_state) ==
    IF HasTag(e, input, <<"i">>)
    THEN Toggles(e, Toggle(Advance(input, 1), TRUE, with_state), with_state)
    ELSE IF HasTag(e, input, <<"-", "i">>)
         THEN Toggles(e, Toggle(Advance(input, 2), FALSE, with_state), with_state)
         ELSE input

\* flags: many0 of "(?" toggles ")"; a group that fails is left unread and
\* the state as it was before the group
RECURSIVE Flags(_, _, _)
Flags(e, input, with_state) ==
    IF ~HasTag(e, input, <<"(", "?">>)
    THEN input
    ELSE LET toggled == Toggles(e, Advance(input, 2), with_state)
         IN  IF toggled.location > input.location + 2 /\ HasTag(e, toggled, <<")">>)
             THEN Flags(e, Advance(toggled, 1), with_state)
             ELSE input

\* the characters that literal does not take unescaped
SpecialCharacters ==
    {"/", "?", "*", "$", ":", "<", ">", "(", ")", "[", "]", "{", "}", ",", "\\"}

\* the characters that literal takes after a backslash
EscapableCharacters ==
    {"?", "*", "$", ":", "<", ">", "(", ")", "[", "]", "{", "}", ","}

\* bytes::escaped_transform in literal: the text read from the location and
\* where it ends, None on a backslash that escapes nothing
RECURSIVE EscapedTransform(_, _, _)
EscapedTransform(e, location, text) ==
    IF location = Len(e)
    THEN Some([location |-> location, text |-> text])
    ELSE LET c == e[location + 1]
         IN  IF c \notin SpecialCharacters
             THEN EscapedTransform(e, location + 1, Append(text, c))
             ELSE IF c /= "\\"
                  THEN Some([location |-> location, text |-> text])
                  ELSE IF /\ location + 2 <= Len(e)
                          /\ e[location + 2] \in EscapableCharacters
                       THEN EscapedTransform(e, location + 2,
                                             Append(text, e[location + 2]))
                       ELSE None

\* literal: text that is not empty, with the flag of the state it is read in
ParseLiteral(e, input) ==
    LET read == EscapedTransform(e, input.location, <<>>)
    IN  IF read = None
        THEN None
        ELSE IF read[1].text = <<>>
             THEN None
             ELSE Parsed([input EXCEPT !.location = read[1].location],
                         Literal(read[1].text, input.is_case_insensitive))

\* separator
ParseSeparator(e, input) ==
    IF HasTag(e, input, <<"/">>) THEN Parsed(Advance(input, 1), Separator) ELSE None

\* a prefix that is rooted at the beginning of the sub-expression and not
\* after "/"
TreePrefixAtBoe(e, input) ==
    IF Boe(input)
    THEN Parsed(Flags(e, input, TRUE), TRUE)
    ELSE IF HasTag(e, input, <<"/">>)
         THEN Parsed(Flags(e, Advance(input, 1), TRUE), FALSE)
         ELSE None

\* the prefix of the tree of wildcard: "/" (rooted) or the beginning of the
\* sub-expression (not rooted), and flags
TreePrefix(e, input) ==
    IF HasTag(e, input, <<"/">>)
    THEN Parsed(Flags(e, Advance(input, 1), TRUE), TRUE)
    ELSE IF Boe(input) THEN Parsed(Flags(e, input, TRUE), FALSE) ELSE None

\* the tree of wildcard: the prefix, "**", and a postfix of flags and "/"
\* or of the terminator
ParseTree(e, input, terminator) ==
    LET prefix == TreePrefix(e, input)
    IN  IF prefix = None
        THEN None
        ELSE IF ~HasTag(e, prefix[1].input, <<"*", "*">>)
             THEN None
             ELSE LET tree == Advance(prefix[1].input, 2)
                      flagged == Flags(e, tree, TRUE)
                  IN  IF HasTag(e, flagged, <<"/">>)
                      THEN Parsed(Advance(flagged, 1), WildcardTree(prefix[1].value))
                      ELSE IF Terminates(e, tree, terminator)
                           THEN Parsed(tree, WildcardTree(prefix[1].value))
                           ELSE None

\* the zero-or-more of wildcard: "*" or "$" before flags and a character
\* that is neither, or before the terminator
ParseZeroOrMore(e, input, terminator, tag, token) ==
    IF ~HasTag(e, input, <<tag>>)
    THEN None
    ELSE LET wildcard == Advance(input, 1)
             peeked == Flags(e, wildcard, FALSE)
         IN  IF \/ /\ peeked.location < Len(e)
                   /\ e[peeked.location + 1] \notin {"*", "$"}
                \/ Terminates(e, wildcard, terminator)
             THEN Parsed(wildcard, token)
             ELSE None

\* supreme::alt: the first of the parsers that succeeds; a parser that fails
\* leaves nothing behind
RECURSIVE Alt(_)
Alt(parsed) ==
    IF parsed = <<>>
    THEN None
    ELSE IF Head(parsed) /= None THEN Head(parsed) ELSE Alt(Tail(parsed))

\* wildcard: exactly-one, tree, eager and lazy zero-or-more in this order
ParseWildcard(e, input, terminator) ==
    IF HasTag(e, input, <<"?">>)
    THEN Parsed(Advance(input, 1), WildcardOne)
    ELSE Alt(<<ParseTree(e, input, terminator),
               ParseZeroOrMore(e, input, terminator, "*", WildcardZeroOrMore),
               ParseZeroOrMore(e, input, terminator, "$", WildcardZeroOrMoreLazy)>>)

Digits == <<"0", "1", "2", "3", "4", "5", "6", "7", "8", "9">>

IsDigit(c) == \E d \in 1..Len(Digits) : Digits[d] = c

DigitValue(c) == (CHOOSE d \in 1..Len(Digits) : Digits[d] = c) - 1

\* character::digit1 and str::parse::<usize>: the location after the
\* digits and their value, the location unchanged when no digit is there
RECURSIVE Digit1(_, _, _)
Digit1(e, location, n) ==
    IF location < Len(e) /\ IsDigit(e[location + 1])
    THEN Digit1(e, location + 1, 10 * n + DigitValue(e[location + 1]))
    ELSE [location |-> location, n |-> n]

\* bounds of repetition: ":" lower "," and maybe upper, ":" n, ":" alone or
\* nothing; it always succeeds
ParseBounds(e, input) ==
    IF ~HasTag(e, input, <<":">>)
    THEN [input |-> input, lower |-> 0, upper |-> None]
    ELSE LET colon == Advance(input, 1)
             lower == Digit1(e, colon.location, 0)
             upper == Digit1(e, lower.location + 1, 0)
         IN  IF lower.location = colon.location
             THEN [input |-> colon, lower |-> 1, upper |-> None]
             ELSE IF ~HasTag(e, [colon EXCEPT !.location = lower.location], <<",">>)
                  THEN [input |-> [colon EXCEPT !.location = lower.location],
                        lower |-> lower.n, upper |-> Some(lower.n)]
                  ELSE [input |-> [colon EXCEPT !.location = upper.location],
                        lower |-> lower.n,
                        upper |-> IF upper.location = lower.location + 1
                                  THEN None
                                  ELSE Some(upper.n)]

\* a Repetition of any bounds
RepetitionNewUnchecked(tokens, lower, upper) ==
    Some(Repetition(tokens, lower,
                    IF upper = None THEN None ELSE Some(upper[1] - lower)))

\* Repetition::new of an inclusive or an open range
RepetitionNew(tokens, lower, upper) ==
    IF upper = None
    THEN Some(Repetition(tokens, lower, None))
    ELSE IF upper[1] /= 0 /\ upper[1] >= lower
         THEN Some(Repetition(tokens, lower, Some(upper[1] - lower)))
         ELSE None

RECURSIVE ParseGlob(_, _, _)

\* repetition: "<" sub-glob bounds ">" that Repetition::new accepts
ParseRepetition(e, input) ==
    IF ~HasTag(e, input, <<"<">>)
    THEN None
    ELSE LET tokens == ParseGlob(e, Advance(input, 1), "repetition")
         IN  IF tokens = None
             THEN None
             ELSE LET bounds == ParseBounds(e, tokens[1].input)
                      new == RepetitionNew(tokens[1].value, bounds.lower, bounds.upper)
                  IN  IF ~HasTag(e, bounds.input, <<">">>) \/ new = None
                      THEN None
                      ELSE Parsed(Advance(bounds.input, 1), new[1])

\* escaped_character of class: the character read and where it ends
EscapedCharacter(e, location) ==
    IF location >= Len(e)
    THEN None
    ELSE IF e[location + 1] \notin {"[", "]", "-", "\\"}
         THEN Some([location |-> location + 1, c |-> e[location + 1]])
         ELSE IF /\ e[location + 1] = "\\"
                 /\ location + 2 <= Len(e)
                 /\ e[location + 2] \in {"[", "]", "-"}
              THEN Some([location |-> location + 2, c |-> e[location + 2]])
              ELSE None

\* archetypes of class: many1 of a range or a character
RECURSIVE Archetypes(_, _, _)
Archetypes(e, location, archetypes) ==
    LET a == EscapedCharacter(e, location)
        b == EscapedCharacter(e, a[1].location + 1)
    IN  IF a = None
        THEN [location |-> location, archetypes |-> archetypes]
        ELSE IF /\ a[1].location < Len(e)
                /\ e[a[1].location + 1] = "-"
                /\ b /= None
             THEN Archetypes(e, b[1].location,
                             Append(archetypes, ArchetypeRange(a[1].c, b[1].c)))
             ELSE Archetypes(e, a[1].location,
                             Append(archetypes, ArchetypeCharacter(a[1].c)))

\* class: "[" and maybe "!" before archetypes and "]"
ParseClass(e, input) ==
    IF ~HasTag(e, input, <<"[">>)
    THEN None
    ELSE LET is_negated == HasTag(e, Advance(input, 1), <<"!">>)
             opened == IF is_negated THEN Advance(input, 2) ELSE Advance(input, 1)
             read == Archetypes(e, opened.location, <<>>)
             closing == [input EXCEPT !.location = read.location]
         IN  IF read.archetypes = <<>> \/ ~HasTag(e, closing, <<"]">>)
             THEN None
             ELSE Parsed(Advance(closing, 1), Class(is_negated, read.archetypes))

\* supreme::many1 of sub-globs in alternative, "," between them and "}"
\* after them
RECURSIVE ParseBranches(_, _, _)
ParseBranches(e, input, branches) ==
    LET branch == ParseGlob(e, input, "alternative")
    IN  IF branch = None
        THEN None
        ELSE IF HasTag(e, branch[1].input, <<"}">>)
             THEN Parsed(Advance(branch[1].input, 1), Append(branches, branch[1].value))
             ELSE IF HasTag(e, branch[1].input, <<",">>)
                  THEN ParseBranches(e, Advance(branch[1].input, 1),
                                     Append(branches, branch[1].value))
                  ELSE None

\* alternative
ParseAlternative(e, input) ==
    IF ~HasTag(e, input, <<"{">>)
    THEN None
    ELSE LET branches == ParseBranches(e, Advance(input, 1), <<>>)
         IN  IF branches = None
             THEN None
             ELSE Parsed(branches[1].input, Alternative(branches[1].value))

\* the alt of glob: each kind of token, the first that succeeds
ParseKind(e, flagged, terminator) ==
    Alt(<<ParseLiteral(e, flagged),
          ParseRepetition(e, flagged),
          ParseAlternative(e, flagged),
          ParseWildcard(e, flagged, terminator),
          ParseClass(e, flagged),
          ParseSeparator(e, flagged)>>)

\* a token of glob: flags_with_state before each kind of token
ParseToken(e, input, terminator) == ParseKind(e, Flags(e, input, TRUE), terminator)

RECURSIVE ParseTokens(_, _, _, _)

\* supreme::many1 after a token: it ends where the terminator stands
ParseTokensAfter(e, terminator, tokens, token) ==
    IF token = None
    THEN None
    ELSE IF Terminates(e, token[1].input, terminator)
         THEN Parsed(token[1].input, Append(tokens, token[1].value))
         ELSE ParseTokens(e, token[1].input, terminator,
                          Append(tokens, token[1].value))

\* supreme::many1 of tokens in glob up to the terminator
ParseTokens(e, input, terminator, tokens) ==
    ParseTokensAfter(e, terminator, tokens, ParseToken(e, input, terminator))

\* glob: the sub-expression begins at the location
ParseGlob(e, input, terminator) ==
    ParseTokens(e, [input EXCEPT !.subexpression = input.location], terminator, <<>>)

\* all_consuming: the glob has read the whole expression
AllConsuming(expression, parsed) ==
    IF parsed = None
    THEN None
    ELSE IF parsed[1].input.location /= Len(expression)
         THEN None
         ELSE Some(parsed[1].value)

\* token::parse: the tokens of the expression, None for a ParseError
Parse(expression) ==
    IF expression = <<>>
    THEN Some(<<>>)
    ELSE AllConsuming(expression, ParseGlob(expression, InputNew, "eof"))

\* the flag groups (?i) and (?-i)
FlagOn == <<"(", "?", "i", ")">>

FlagOff == <<"(", "?", "-", "i", ")">>

\* what stands before the middle of an expression that is parsed
Befores ==
    {<<>>, <<"a">>, <<"a", "/">>, <<"/">>, FlagOn, <<"a">> \o FlagOn,
     <<"a", "/">> \o FlagOn, FlagOn \o <<"/">>, FlagOn \o <<"a", "/">>,
     <<"a">> \o FlagOff \o <<"/">> \o FlagOn}

\* the middle: a tree, the other wildcards, a literal, a class
Middles == {<<"*", "*">>, <<"*">>, <<"$">>, <<"?">>, <<"b">>, <<"[", "b", "]">>}

\* what stands after the middle
Afters ==
    {<<>>, <<"/", "c">>, <<"c">>, FlagOff \o <<"/", "c">>, <<"/">> \o FlagOff \o <<"c">>,
     FlagOff, <<"/">>, FlagOn \o <<"c">>}

\* what the three stand in: nothing, an alternative, a repetition
Shells ==
    {[open |-> <<>>, close |-> <<>>],
     [open |-> <<"{">>, close |-> <<"}">>],
     [open |-> <<"{", "a", ",">>, close |-> <<"}">>],
     [open |-> <<"a", "/", "{">>, close |-> <<",", "d", "}", "/", "e">>],
     [open |-> <<"<">>, close |-> <<">">>],
     [open |-> <<"<">>, close |-> <<":", "1", ",", "2", ">">>]}

\* the digits of the bounds given to a repetition
BoundDigits == {<<"0">>, <<"1">>, <<"2">>, <<"3">>, <<"1", "0">>}

\* the suffixes of a repetition: none, ":", ":n", ":lower," and
\* ":lower,upper"
BoundSuffixes ==
    {<<>>, <<":">>}
    \cup {<<":">> \o n : n \in BoundDigits}
    \cup {<<":">> \o lower \o <<",">> : lower \in BoundDigits}
    \cup {<<":">> \o lower \o <<",">> \o upper :
            lower \in BoundDigits, upper \in BoundDigits}

\* (?-i)../foo/(?i)**/bar/**(?-i)/baz/*(?i)qux of the test
\* literal_case_insensitivity
TextOfTest ==
    FlagOff \o <<".", ".", "/", "f", "o", "o", "/">> \o FlagOn
    \o <<"*", "*", "/", "b", "a", "r", "/", "*", "*">> \o FlagOff
    \o <<"/", "b", "a", "z", "/", "*">> \o FlagOn \o <<"q", "u", "x">>

\* expressions that are wrong or that escape
OtherTexts ==
    {<<>>, TextOfTest, <<"a", "\\", "*", "b">>, <<"a", "\\">>, <<"a", "\\", "/">>,
     <<"(", "?", "i">>, <<"(", "?", "i", "x", ")", "a">>, <<"(", "?", ")", "a">>,
     <<"(", "?", "i", "-", "i", ")", "a">>, <<"(", "?", "-", "i", "i", ")", "a">>,
     FlagOn \o FlagOff \o <<"a">>, <<"{", "a">>, <<"{", ",", "a", "}">>, <<"<", ">">>,
     <<"[", "a", "-", "c", "]">>, <<"[", "!", "a", "]">>, <<"[", "]">>,
     <<"*", "*", "*">>, <<"a", "*", "*", "b">>, <<"*", "$">>,
     <<"{">> \o FlagOn \o <<"a", ",", "b", "}", "c">>,
     <<"<">> \o FlagOn \o <<"a", ">", "c">>,
     <<"/", "<", "/", "*", "*", "/", "a", ">">>,
     <<"<", "a", "/", "*", "*", ">">>,
     <<"/", "{", "/", "a", ",", "b", "}">>}

\* the expressions that parse is given
Texts ==
    {shell.open \o before \o middle \o after \o shell.close :
        shell \in Shells, before \in Befores, middle \in Middles, after \in Afters}
    \cup {<<"<", "a">> \o suffix \o <<">">> : suffix \in BoundSuffixes}
    \cup OtherTexts

\* the variances that are added
Variances ==
    {Invariant(<<>>), Invariant(<<"a">>), Invariant(<<"b", "/">>), Variant(Open),
     Variant(Closed)}

\* the depths that DepthBehavior::bounded is given
OptionalDepths == {None} \cup {Some(d) : d \in Depths}

\* what the functions are applied to: an expression, two expressions that
\* are concatenated, two variances, two depths or the text of an expression
TokenScenarios ==
    {[engine |-> "Tokenized", tokens |-> tokens, other |-> <<>>,
      left |-> Invariant(<<>>), right |-> Invariant(<<>>), min |-> None, max |-> None,
      expression |-> <<>>] :
        tokens \in Expressions}
    \cup
    {[engine |-> "Concatenation", tokens |-> tokens, other |-> other,
      left |-> Invariant(<<>>), right |-> Invariant(<<>>), min |-> None, max |-> None,
      expression |-> <<>>] :
        tokens \in Expressions, other \in Expressions}
    \cup
    {[engine |-> "Variance", tokens |-> <<>>, other |-> <<>>,
      left |-> left, right |-> right, min |-> None, max |-> None,
      expression |-> <<>>] :
        left \in Variances, right \in Variances}
    \cup
    {[engine |-> "DepthBehavior", tokens |-> <<>>, other |-> <<>>,
      left |-> Invariant(<<>>), right |-> Invariant(<<>>), min |-> min, max |-> max,
      expression |-> <<>>] :
        min \in OptionalDepths, max \in OptionalDepths}
    \cup
    {[engine |-> "Parse", tokens |-> <<>>, other |-> <<>>,
      left |-> Invariant(<<>>), right |-> Invariant(<<>>), min |-> None, max |-> None,
      expression |-> expression] :
        expression \in Texts}

\* ------------------------------------------------------------------------
\* The functions over tokens, variances and depths as a state machine: args
\* is what was given, this the Tokenized that partition takes and gives
\* back, log what each call returned, and ended that a call that only reads
\* was made
\* ------------------------------------------------------------------------

\* the most calls of partition, each on what the one before left
MaxPartitions == 2

TokenInit ==
    \E scenario \in TokenScenarios :
        /\ args = scenario
        /\ this = [tokens |-> scenario.tokens]
        /\ log = <<>>
        /\ ended = FALSE

\* walk::is_terminal of the tokens
CallIsTerminal ==
    /\ args.engine = "Tokenized"
    /\ ~ended
    /\ log' = Append(log, [op |-> "is_terminal", tokens |-> this.tokens,
                           result |-> IsTerminal(this.tokens)])
    /\ ended' = TRUE
    /\ UNCHANGED <<args, this>>

\* token::invariant_prefix_path of the tokens
CallInvariantPrefixPath ==
    /\ args.engine = "Tokenized"
    /\ ~ended
    /\ log' = Append(log, [op |-> "invariant_prefix_path", tokens |-> this.tokens,
                           result |-> InvariantPrefixPath(this.tokens)])
    /\ ended' = TRUE
    /\ UNCHANGED <<args, this>>

\* Token::depth and Token::breadth of each of the tokens
CallDepth ==
    /\ args.engine = "Tokenized"
    /\ ~ended
    /\ log' = Append(log, [op |-> "depth", tokens |-> this.tokens,
                           result |-> [i \in 1..Len(this.tokens) |->
                                            TokenDepth(this.tokens[i])],
                           breadth |-> [i \in 1..Len(this.tokens) |->
                                            TokenBreadth(this.tokens[i])]])
    /\ ended' = TRUE
    /\ UNCHANGED <<args, this>>

\* Token::variance of each of the tokens and Tokenized::variance
CallVariance ==
    /\ args.engine = "Tokenized"
    /\ ~ended
    /\ log' = Append(log, [op |-> "variance", tokens |-> this.tokens,
                           each |-> MapVariance(this.tokens),
                           result |-> TokenizedVariance(this)])
    /\ ended' = TRUE
    /\ UNCHANGED <<args, this>>

\* Tokenized::partition
CallPartition ==
    /\ args.engine = "Tokenized"
    /\ ~ended
    /\ Len(log) < MaxPartitions
    /\ LET parted == Partition(this)
       IN  /\ this' = parted.tokenized
           /\ log' = Append(log, [op |-> "partition", tokens |-> this.tokens,
                                  prefix |-> parted.prefix,
                                  residual |-> parted.tokenized.tokens])
    /\ UNCHANGED <<args, ended>>

\* token::components of the tokens
CallComponents ==
    /\ args.engine = "Tokenized"
    /\ ~ended
    /\ log' = Append(log, [op |-> "components", tokens |-> this.tokens,
                           result |-> Components(this.tokens)])
    /\ ended' = TRUE
    /\ UNCHANGED <<args, this>>

\* token::invariant_prefix_upper_bound of the tokens
CallInvariantPrefixUpperBound ==
    /\ args.engine = "Tokenized"
    /\ ~ended
    /\ log' = Append(log, [op |-> "invariant_prefix_upper_bound",
                           tokens |-> this.tokens,
                           result |-> InvariantPrefixUpperBound(this.tokens)])
    /\ ended' = TRUE
    /\ UNCHANGED <<args, this>>

\* Token::is_rooted of the first of the tokens
CallIsRooted ==
    /\ args.engine \in {"Tokenized", "Parse"}
    /\ ~ended
    /\ this.tokens /= <<>>
    /\ log' = Append(log, [op |-> "is_rooted", tokens |-> this.tokens,
                           result |-> IsRooted(this.tokens[1])])
    /\ ended' = TRUE
    /\ UNCHANGED <<args, this>>

\* Tokenized::variance of two sequences of tokens and of the one after the
\* other
CallConcatenation ==
    /\ args.engine = "Concatenation"
    /\ ~ended
    /\ this' = [tokens |-> args.tokens \o args.other]
    /\ log' = Append(log, [op |-> "concatenation",
                           left |-> TokenizedVariance([tokens |-> args.tokens]),
                           right |-> TokenizedVariance([tokens |-> args.other]),
                           result |-> TokenizedVariance(this')])
    /\ ended' = TRUE
    /\ UNCHANGED args

\* Variance::add
CallAdd ==
    /\ args.engine = "Variance"
    /\ ~ended
    /\ log' = Append(log, [op |-> "add", result |-> VarianceAdd(args.left, args.right)])
    /\ ended' = TRUE
    /\ UNCHANGED <<args, this>>

\* DepthBehavior::bounded
CallBounded ==
    /\ args.engine = "DepthBehavior"
    /\ ~ended
    /\ log' = Append(log, [op |-> "bounded", result |-> Bounded(args.min, args.max)])
    /\ ended' = TRUE
    /\ UNCHANGED <<args, this>>

\* token::parse of the text: the Tokenized it gives, or the ParseError
CallParse ==
    /\ args.engine = "Parse"
    /\ ~ended
    /\ log = <<>>
    /\ \E parsed \in {Parse(args.expression)} :
        /\ this' = [tokens |-> IF parsed = None THEN <<>> ELSE parsed[1]]
        /\ log' = Append(log, [op |-> "parse", expression |-> args.expression,
                               result |-> parsed])
    /\ UNCHANGED <<args, ended>>

TokenNext ==
    \/ CallIsTerminal
    \/ CallInvariantPrefixPath
    \/ CallDepth
    \/ CallVariance
    \/ CallPartition
    \/ CallIsRooted
    \/ CallConcatenation
    \/ CallAdd
    \/ CallBounded
    \/ CallParse
    \/ CallComponents
    \/ CallInvariantPrefixUpperBound

TokenSpec == TokenInit /\ [][TokenNext]_vars

\* the records of the calls of an operation
Calls(op) == {i \in Records : log[i].op = op}

\* the last component of an expression that has components
LastComponent(tokens) == Components(tokens)[Len(Components(tokens))]

\* a token of the component has open depth
HasOpenDepth(component) ==
    \E k \in 1..Len(component) : TokenDepth(component[k]) = Open

\* a token of the component has open breadth
HasOpenBreadth(component) ==
    \E k \in 1..Len(component) : TokenBreadth(component[k]) = Open

\* the variance of the component is open: each of its tokens is Variant(Open)
HasOpenVariance(component) ==
    \A k \in 1..Len(component) : TokenVariance(component[k]) = Variant(Open)

\* the patterns that are named as not terminal: the empty pattern, a/**/b,
\* a/* and **/a
NamedNonterminal == {ExprEmpty, ExprATreeB, ExprAStar, ExprTreeA}

\* C12 as stated: a pattern is terminal exactly when its last component has
\* open depth and open breadth, and the empty pattern, a/**/b, a/* and **/a
\* are not terminal
C12_TerminalByBreadth ==
    \A i \in Calls("is_terminal") :
        /\ log[i].result <=>
                /\ Components(log[i].tokens) /= <<>>
                /\ HasOpenDepth(LastComponent(log[i].tokens))
                /\ HasOpenBreadth(LastComponent(log[i].tokens))
        /\ log[i].tokens \in NamedNonterminal => ~log[i].result

\* C12: a pattern is terminal exactly when its last component has open
\* depth and a variance that is Variant(Open); every other pattern, the empty
\* pattern, a/**/b, a/* and **/a among them, is not terminal
C12_Terminal ==
    \A i \in Calls("is_terminal") :
        /\ log[i].result <=>
                /\ Components(log[i].tokens) /= <<>>
                /\ HasOpenDepth(LastComponent(log[i].tokens))
                /\ HasOpenVariance(LastComponent(log[i].tokens))
        /\ log[i].tokens \in NamedNonterminal => ~log[i].result

\* is_terminal was asked of a</**/b>, whose one component has open depth and
\* open breadth and a variance that is closed, and said no
C12_Witness ==
    \E i \in Calls("is_terminal") :
        /\ log[i].tokens = ExprARepTreeB
        /\ HasOpenDepth(LastComponent(log[i].tokens))
        /\ HasOpenBreadth(LastComponent(log[i].tokens))
        /\ ~log[i].result

\* both depths are open, or both are closed and the minimum is the greater
IsOpenOrMisordered(min, max) ==
    \/ min = None /\ max = None
    \/ min /= None /\ max /= None /\ min[1] > max[1]

\* the behavior is bounded by exactly the depths that are closed
BoundsEqual(behavior, min, max) ==
    /\ behavior.kind = "Min" <=> (min /= None /\ max = None)
    /\ behavior.kind = "Max" <=> (min = None /\ max /= None)
    /\ behavior.kind = "MinMax" <=> (min /= None /\ max /= None)
    /\ behavior.kind = "Min" => behavior.min = min[1]
    /\ behavior.kind = "Max" => behavior.max = max[1]
    /\ behavior.kind = "MinMax" =>
            (behavior.min = min[1] /\ behavior.min + behavior.extent = max[1])

\* C13: DepthBehavior::bounded returns None only when both depths are open
\* or both are closed and the minimum is greater than the maximum; for every
\* other input it returns Some of Min, Max or MinMax with the bounds that it
\* was given, and never Unbounded
C13_Bounded ==
    \A i \in Calls("bounded") :
        /\ log[i].result = None <=> IsOpenOrMisordered(args.min, args.max)
        /\ log[i].result /= None =>
                /\ log[i].result[1] /= Unbounded
                /\ BoundsEqual(log[i].result[1], args.min, args.max)

\* the sum is what the table of the concatenation gives for the pair
IsSumOfTable(sum, l, r) ==
    /\ (IsInvariant(l) /\ IsInvariant(r)) => sum = Invariant(l.text \o r.text)
    /\ (l = Variant(Open) /\ r = Variant(Open)) => sum = Variant(Open)
    /\ (~(IsInvariant(l) /\ IsInvariant(r)) /\ ~(l = Variant(Open) /\ r = Variant(Open)))
            => sum = Variant(Closed)

\* C14 as stated: the sum of two variances is what the table gives, and
\* Invariant of the empty text is an identity on either side for every
\* variance
C14_AddWithIdentity ==
    \A i \in Calls("add") :
        /\ IsSumOfTable(log[i].result, args.left, args.right)
        /\ args.left = Invariant(<<>>) => log[i].result = args.right
        /\ args.right = Invariant(<<>>) => log[i].result = args.left

\* C14: Invariant(a) + Invariant(b) = Invariant(ab), Variant(Open) +
\* Variant(Open) = Variant(Open) and every other pair gives Variant(Closed);
\* Invariant of the empty text is an identity on either side for every
\* variance but Variant(Open)
C14_Add ==
    \A i \in Calls("add") :
        /\ IsSumOfTable(log[i].result, args.left, args.right)
        /\ (args.left = Invariant(<<>>) /\ args.right /= Variant(Open))
                => log[i].result = args.right
        /\ (args.right = Invariant(<<>>) /\ args.left /= Variant(Open))
                => log[i].result = args.left

\* Invariant of the empty text was added to Variant(Open), on either side,
\* and the sum is Variant(Closed)
C14_Witness ==
    \E i \in Calls("add") :
        /\ {args.left, args.right} = {Invariant(<<>>), Variant(Open)}
        /\ log[i].result = Variant(Closed)

\* one of the two sequences is empty and the variance of the other is
\* Variant(Open)
IsEmptyBesideOpen ==
    \/ args.tokens = <<>> /\ TokensVariance(args.other) = Variant(Open)
    \/ args.other = <<>> /\ TokensVariance(args.tokens) = Variant(Open)

\* C15 as stated: for all sequences of tokens A and B, the empty one among
\* them, the variance of A followed by B is the sum of the variance of A and
\* the variance of B
C15_ConcatenationWithEmpty ==
    \A i \in Calls("concatenation") :
        IsSumOfTable(log[i].result, log[i].left, log[i].right)

\* C15: for all sequences of tokens A and B, but for an empty one beside one
\* of variance Variant(Open), the variance of A followed by B is the sum of
\* the variance of A and the variance of B; beside an empty sequence the
\* variance of the concatenation is the variance of the other
C15_Concatenation ==
    \A i \in Calls("concatenation") :
        /\ ~IsEmptyBesideOpen => IsSumOfTable(log[i].result, log[i].left, log[i].right)
        /\ args.tokens = <<>> => log[i].result = log[i].right
        /\ args.other = <<>> => log[i].result = log[i].left

\* the variance was taken of two sequences that are not empty, one of them
\* invariant and the other Variant(Open), and of their concatenation
C15_Witness ==
    \E i \in Calls("concatenation") :
        /\ args.tokens /= <<>>
        /\ args.other /= <<>>
        /\ IsInvariant(log[i].left)
        /\ log[i].right = Variant(Open)
        /\ log[i].result = Variant(Closed)

\* the token is a tree wildcard or has one in a branch of an alternative or
\* in a repetition, however deep
RECURSIVE HasTreeWildcard(_)
HasTreeWildcard(token) ==
    CASE token.kind = "Alternative" ->
            \E b \in 1..Len(token.branches) :
                \E k \in 1..Len(token.branches[b]) : HasTreeWildcard(token.branches[b][k])
      [] token.kind = "Repetition" ->
            \E k \in 1..Len(token.tokens) : HasTreeWildcard(token.tokens[k])
      [] OTHER -> IsTree(token)

\* C16: the depth of a token that is a tree wildcard, or has one in an
\* alternative or in a repetition, bounded or not, is open
C16_TreeDepth ==
    \A i \in Calls("depth") :
        \A k \in 1..Len(log[i].tokens) :
            HasTreeWildcard(log[i].tokens[k]) => log[i].result[k] = Open

\* the conjunctive variance of the tokens of a repetition after coalescing
Accumulated(rep) ==
    TokensVariance(IF rep.tokens = <<>> THEN <<>>
                   ELSE Coalesce(Head(rep.tokens), Tail(rep.tokens)))

\* the repetition has an upper bound that is its lower bound
IsConverged(rep) ==
    RepetitionBounds(rep).upper = Some(RepetitionBounds(rep).lower)

\* C17: the variance of a repetition whose upper bound is its lower bound
\* and whose tokens, coalesced, are Invariant(t) is Invariant of t repeated
\* lower times; of every other repetition it is the sum of the variance of
\* its coalesced tokens and Variant(Open)
C17_RepetitionVariance ==
    \A i \in Calls("variance") :
        \A k \in 1..Len(log[i].tokens) :
            log[i].tokens[k].kind = "Repetition" =>
                LET rep == log[i].tokens[k]
                    acc == Accumulated(rep)
                IN  IF IsConverged(rep) /\ IsInvariant(acc)
                    THEN log[i].each[k]
                            = Invariant(Flatten([n \in 1..rep.lower |-> acc.text]))
                    ELSE IsSumOfTable(log[i].each[k], acc, Variant(Open))

\* the variance was taken of <a/:2>b*: the repetition is Invariant of a/a/
C17_Witness ==
    \E i \in Calls("variance") :
        /\ log[i].tokens = ExprExactRepAB
        /\ IsConverged(log[i].tokens[1])
        /\ log[i].each[1] = Invariant(<<"a", "/", "a", "/">>)

\* the number of components at the head of the expression that are
\* invariant, each as a whole
LeadingInvariantRun(tokens) ==
    LET components == Components(tokens)
        IsWhole(k) == \A t \in 1..Len(components[k]) :
                            IsInvariant(TokenVariance(components[k][t]))
    IN  CHOOSE n \in 0..Len(components) :
            /\ \A k \in 1..n : IsWhole(k)
            /\ n < Len(components) => ~IsWhole(n + 1)

\* the first token is a separator or a rooted tree wildcard
StartsAtRoot(tokens) ==
    /\ tokens /= <<>>
    /\ \/ tokens[1].kind = "Separator"
       \/ IsTree(tokens[1]) /\ tokens[1].is_rooted

\* the texts of the run, each after the first behind a separator, behind a
\* separator when the expression starts at the root
LeadingInvariantText(tokens) ==
    LET components == Components(tokens)
        TextOf(k) == Flatten([t \in 1..Len(components[k]) |->
                                TokenVariance(components[k][t]).text])
    IN  (IF StartsAtRoot(tokens) THEN <<MAIN_SEPARATOR>> ELSE <<>>)
        \o Flatten([k \in 1..LeadingInvariantRun(tokens) |->
                        IF k = 1 THEN TextOf(k) ELSE <<MAIN_SEPARATOR>> \o TextOf(k)])

\* the expressions that are named as without a prefix: **, a*, */b and a?/b
NamedWithoutPrefix == {GlobTree, ExprAThenStar, GlobStarB, ExprAOneB}

\* C18: invariant_prefix_path returns the path of the text of the longest
\* run of whole invariant components at the head of the expression, joined
\* by the separator and behind a separator when the first token is a
\* separator or a rooted tree wildcard, and None when the text is empty, as
\* for **, a*, */b and a?/b; of a/b* the prefix is a
C18_InvariantPrefixPath ==
    \A i \in Calls("invariant_prefix_path") :
        /\ log[i].result =
                IF LeadingInvariantText(log[i].tokens) = <<>> THEN None
                ELSE Some(PathFromText(LeadingInvariantText(log[i].tokens)))
        /\ log[i].tokens \in NamedWithoutPrefix => log[i].result = None
        /\ log[i].tokens = ExprABStar => log[i].result = Some(Path(FALSE, <<NameA>>))

\* invariant_prefix_path was asked of a/b/*/c, which has an invariant
\* component behind one that is not, and gave a/b
C18_Witness ==
    \E i \in Calls("invariant_prefix_path") :
        /\ log[i].tokens = ExprABStarC
        /\ LeadingInvariantRun(log[i].tokens) = 2
        /\ log[i].result = Some(Path(FALSE, <<NameA, NameB>>))

\* the names of the paths that the expressions are matched against
PathNames == {NameA, NameB, NameC, <<"a", "b">>}

\* the most names of such a path
MaxNames == 2

RECURSIVE NamesUpTo(_)
NamesUpTo(n) ==
    IF n = 0 THEN {<<>>}
    ELSE NamesUpTo(n - 1)
         \cup {Append(names, name) : names \in NamesUpTo(n - 1), name \in PathNames}

\* the relative paths that what partition leaves is matched against: the
\* paths of one name or more
RelativePaths == {Path(FALSE, names) : names \in NamesUpTo(MaxNames) \ {<<>>}}

\* the tokens that the call of partition drained
Drained(call) == SubSeq(call.tokens, 1, Len(call.tokens) - Len(call.residual))

\* what is left is what was not drained, but for the root of a tree wildcard
\* at its head
IsRestUnrooted(call) ==
    LET n == Len(call.tokens) - Len(call.residual)
    IN  /\ n >= 0
        /\ \A k \in 1..Len(call.residual) :
            \/ call.residual[k] = call.tokens[n + k]
            \/ /\ k = 1
               /\ IsTree(call.tokens[n + 1])
               /\ call.residual[1] = WildcardTree(FALSE)

\* the drained tokens are invariant and their text is the names of the
\* prefix, which has a root exactly when the expression starts at the root;
\* the components of what was drained and of what was not are the
\* components of the expression
DrainedIsPrefix(call) ==
    LET drained == Drained(call)
    IN  /\ \A k \in 1..Len(drained) : IsInvariant(TokenVariance(drained[k]))
        /\ SplitText(Flatten([k \in 1..Len(drained) |-> TokenVariance(drained[k]).text]),
                     <<>>) = call.prefix.comps
        /\ call.prefix.abs <=> StartsAtRoot(call.tokens)
        /\ Components(drained) \o Components(Skip(call.tokens, Len(drained)))
                = Components(call.tokens)

StartsVariant(tokens) ==
    /\ Components(tokens) /= <<>>
    /\ LeadingInvariantRun(tokens) = 0

\* C20: of what partition leaves, invariant_prefix_path is None or the
\* first component is not invariant; and partition of it again gives the
\* empty prefix and leaves it as it is
C20_PartitionExhaustive ==
    \A i \in Calls("partition") : \A j \in Records :
        j > i =>
            /\ log[j].tokens = log[i].residual
            /\ log[j].op = "invariant_prefix_path" =>
                    (log[j].result = None \/ StartsVariant(log[j].tokens))
            /\ log[j].op = "partition" =>
                    /\ log[j].prefix = EmptyPath
                    /\ log[j].residual = log[i].residual

\* /**/a was partitioned into the prefix / and **/a, and **/a again into the
\* empty prefix and itself
C20_Witness ==
    /\ Calls("partition") = {1, 2}
    /\ log[1].tokens = ExprRootedTreeA
    /\ log[1].prefix = Path(TRUE, <<>>)
    /\ log[2].tokens = ExprTreeA
    /\ log[2].residual = ExprTreeA

\* C21: when the first token of an expression is rooted and the prefix that
\* partition gives is absolute, the first token of what is left is not
\* rooted, also when it is an alternative or a repetition that starts with a
\* separator or a rooted tree wildcard
C21_ResidualUnrooted ==
    \A i \in Calls("partition") : \A j \in Calls("is_rooted") :
        (/\ j > i
         /\ log[i].tokens /= <<>>
         /\ IsRooted(log[i].tokens[1])
         /\ IsAbsolute(log[i].prefix))
            => ~log[j].result

\* ------------------------------------------------------------------------
\* What parse gives
\* ------------------------------------------------------------------------

\* the calls of parse that gave tokens
Parses == {i \in Calls("parse") : log[i].result /= None}

\* is_rooted of the tree wildcards of the tokens and of the tokens in them,
\* in the order of the text
RECURSIVE TreeRoots(_)
TreeRoots(tokens) ==
    IF tokens = <<>>
    THEN <<>>
    ELSE LET token == Head(tokens)
         IN  (CASE IsTree(token) -> <<token.is_rooted>>
                [] token.kind = "Alternative" -> TreeRoots(Flatten(token.branches))
                [] token.kind = "Repetition" -> TreeRoots(token.tokens)
                [] OTHER -> <<>>)
             \o TreeRoots(Tail(tokens))

\* the locations of the text where "**" stands
RECURSIVE TreesOfText(_, _)
TreesOfText(e, location) ==
    IF location + 2 > Len(e)
    THEN <<>>
    ELSE IF e[location + 1] = "*" /\ e[location + 2] = "*"
         THEN <<location>> \o TreesOfText(e, location + 2)
         ELSE TreesOfText(e, location + 1)

\* the location where the flag groups that end at the location begin
RECURSIVE BeforeFlags(_, _)
BeforeFlags(e, location) ==
    IF location >= 4 /\ SubSeq(e, location - 3, location) = FlagOn
    THEN BeforeFlags(e, location - 4)
    ELSE IF location >= 5 /\ SubSeq(e, location - 4, location) = FlagOff
         THEN BeforeFlags(e, location - 5)
         ELSE location

\* the location where the flag groups that begin at the location end
RECURSIVE AfterFlags(_, _)
AfterFlags(e, location) ==
    IF location + 4 <= Len(e) /\ SubSeq(e, location + 1, location + 4) = FlagOn
    THEN AfterFlags(e, location + 4)
    ELSE IF location + 5 <= Len(e) /\ SubSeq(e, location + 1, location + 5) = FlagOff
         THEN AfterFlags(e, location + 5)
         ELSE location

\* "/" stands before the location, flag groups aside
FollowsSeparator(e, location) ==
    BeforeFlags(e, location) >= 1 /\ e[BeforeFlags(e, location)] = "/"

\* C22 as the claim has it: in the tokens that parse gives, a tree wildcard
\* is rooted only as the first token of the top-level sequence: at a later
\* index, or inside an alternative or a repetition, is_rooted is false
C22_RootedOnlyFirst ==
    \A i \in Parses :
        LET tokens == log[i].result[1]
        IN  \A k \in 1..Len(tokens) :
                (k > 1 \/ HasSubTokens(tokens[k]))
                    => \A r \in 1..Len(TreeRoots(<<tokens[k]>>)) :
                            ~TreeRoots(<<tokens[k]>>)[r]

\* C22: in the tokens that parse gives, a tree wildcard is rooted exactly
\* when "/" stands before its "**" (flag groups aside), at any index and at
\* any depth: a tree at the beginning of the expression or of a
\* sub-expression is not rooted
C22_RootedBySeparator ==
    \A i \in Parses :
        LET roots == TreeRoots(log[i].result[1])
            trees == TreesOfText(log[i].expression, 0)
        IN  /\ Len(roots) = Len(trees)
            /\ \A k \in 1..Len(roots) :
                    roots[k] = FollowsSeparator(log[i].expression, trees[k])

\* a rooted tree at the second index of the top-level sequence
C22_Witness ==
    \E i \in Parses :
        /\ Len(log[i].result[1]) >= 2
        /\ IsTree(log[i].result[1][2])
        /\ log[i].result[1][2].is_rooted

\* the text begins with the tag
BeginsWith(e, tag) == Len(tag) <= Len(e) /\ SubSeq(e, 1, Len(tag)) = tag

\* C23 as the claim has it: the first token of an expression that parses
\* and begins with "/" or with "**" is rooted
C23_LeadingRooted ==
    \A i \in Parses : \A j \in Calls("is_rooted") :
        (/\ j = i + 1
         /\ \/ BeginsWith(log[i].expression, <<"/">>)
            \/ BeginsWith(log[i].expression, <<"*", "*">>))
            => log[j].result

\* C23: the first token of an expression that parses and begins with "/"
\* is rooted, that of one that begins with "**" is not
C23_LeadingSeparatorRooted ==
    \A i \in Parses : \A j \in Calls("is_rooted") :
        j = i + 1
            => /\ BeginsWith(log[i].expression, <<"/">>) => log[j].result
               /\ BeginsWith(log[i].expression, <<"*", "*">>) => ~log[j].result

\* is_rooted was asked of the tokens of an expression that begins with "/**"
C23_Witness ==
    \E i \in Parses : \E j \in Calls("is_rooted") :
        /\ j = i + 1
        /\ BeginsWith(log[i].expression, <<"/", "*", "*">>)
        /\ log[j].result

\* the characters that begin and that end a sub-expression
Openers == {"{", ",", "<"}

Closers == {"}", ",", ">", ":"}

\* before the "**" at the location stands "/" or the beginning of the
\* expression or of a sub-expression, flag groups aside
IsBoundedBefore(e, location) ==
    LET before == BeforeFlags(e, location)
    IN  before = 0 \/ e[before] = "/" \/ e[before] \in Openers

\* after the "**" at the location stands "/" or the end of the expression
\* or of a sub-expression, flag groups aside
IsBoundedAfter(e, location) ==
    LET after == AfterFlags(e, location + 2)
    IN  after = Len(e) \/ e[after + 1] = "/" \/ e[after + 1] \in Closers

\* every "**" of the text is bounded on both sides
HasBoundedTrees(e) ==
    \A k \in 1..Len(TreesOfText(e, 0)) :
        /\ IsBoundedBefore(e, TreesOfText(e, 0)[k])
        /\ IsBoundedAfter(e, TreesOfText(e, 0)[k])

\* the text with a literal in the place of every "**"
RECURSIVE WithoutTrees(_)
WithoutTrees(e) ==
    IF Len(e) < 2
    THEN e
    ELSE IF e[1] = "*" /\ e[2] = "*"
         THEN <<"b">> \o WithoutTrees(SubSeq(e, 3, Len(e)))
         ELSE <<e[1]>> \o WithoutTrees(Tail(e))

\* C24: a text with a "**" that is not bounded by "/" or by the beginning
\* and the end of its (sub-)expression does not parse; a text whose "**" are
\* all bounded, flag groups between a "**" and its boundary aside, and that
\* parses with a literal in their place, parses
C24_BoundedTree ==
    \A i \in Calls("parse") :
        /\ ~HasBoundedTrees(log[i].expression) => log[i].result = None
        /\ (/\ HasBoundedTrees(log[i].expression)
            /\ Parse(WithoutTrees(log[i].expression)) /= None)
                => log[i].result /= None

\* the literals of the tokens and of the tokens in them, in the order of the
\* text
RECURSIVE LiteralsOf(_)
LiteralsOf(tokens) ==
    IF tokens = <<>>
    THEN <<>>
    ELSE LET token == Head(tokens)
         IN  (CASE token.kind = "Literal" -> <<token>>
                [] token.kind = "Alternative" -> LiteralsOf(Flatten(token.branches))
                [] token.kind = "Repetition" -> LiteralsOf(token.tokens)
                [] OTHER -> <<>>)
             \o LiteralsOf(Tail(tokens))

\* the location just after the next c at or after the location
RECURSIVE SkipTo(_, _, _)
SkipTo(e, location, c) ==
    IF location >= Len(e)
    THEN Len(e)
    ELSE IF e[location + 1] = c THEN location + 1 ELSE SkipTo(e, location + 1, c)

\* the location where the run of literal text that is at the location ends
RECURSIVE RunEnd(_, _)
RunEnd(e, location) ==
    IF location >= Len(e)
    THEN Len(e)
    ELSE IF e[location + 1] = "\\"
         THEN RunEnd(e, location + 2)
         ELSE IF e[location + 1] \in SpecialCharacters
              THEN location
              ELSE RunEnd(e, location + 1)

\* the locations of the text where a run of literal text begins: flag
\* groups, classes and the bounds of repetitions hold none
RECURSIVE LiteralStarts(_, _)
LiteralStarts(e, location) ==
    IF location >= Len(e)
    THEN <<>>
    ELSE LET c == e[location + 1]
         IN  CASE c = "(" -> LiteralStarts(e, SkipTo(e, location, ")"))
               [] c = "[" -> LiteralStarts(e, SkipTo(e, location, "]"))
               [] c = ":" -> LiteralStarts(e, SkipTo(e, location, ">"))
               [] c \in SpecialCharacters \ {"(", "[", ":", "\\"} ->
                     LiteralStarts(e, location + 1)
               [] OTHER -> <<location>> \o LiteralStarts(e, RunEnd(e, location))

\* the character before the location stands in a flag group
RECURSIVE InFlagGroup(_, _)
InFlagGroup(e, location) ==
    IF location = 0
    THEN FALSE
    ELSE IF e[location] = "("
         THEN TRUE
         ELSE IF e[location] \in {"i", "-", "?"}
              THEN InFlagGroup(e, location - 1)
              ELSE FALSE

\* the flag in effect at the location: what the most recent "i" or "-i" of
\* a flag group before it sets, the default of the platform when there is
\* none
RECURSIVE FlagBefore(_, _)
FlagBefore(e, location) ==
    IF location = 0
    THEN PATHS_ARE_CASE_INSENSITIVE
    ELSE IF e[location] = "i" /\ InFlagGroup(e, location)
         THEN e[location - 1] /= "-"
         ELSE FlagBefore(e, location - 1)

\* C25: every literal that parse gives has the case-insensitivity flag in
\* effect where its text begins: that of the most recent "i" or "-i" before
\* it, beside "**" and after "*" too, the default of the platform when
\* there is none; no flag that a failed alternative read is left behind
C25_LiteralFlags ==
    \A i \in Parses :
        LET literals == LiteralsOf(log[i].result[1])
            starts == LiteralStarts(log[i].expression, 0)
        IN  /\ Len(literals) = Len(starts)
            /\ \A k \in 1..Len(literals) :
                    literals[k].is_case_insensitive
                        = FlagBefore(log[i].expression, starts[k])

\* the expression of the test was parsed: the flag is set before literals,
\* beside "**" and after "*", and set back
C25_Witness ==
    \E i \in Parses :
        /\ log[i].expression = TextOfTest
        /\ Len(LiteralsOf(log[i].result[1])) = 5
        /\ LiteralsOf(log[i].result[1])[3].is_case_insensitive
        /\ ~LiteralsOf(log[i].result[1])[4].is_case_insensitive
        /\ LiteralsOf(log[i].result[1])[5].is_case_insensitive

\* the repetitions of the tokens and of the tokens in them
RECURSIVE RepetitionsOf(_)
RepetitionsOf(tokens) ==
    IF tokens = <<>>
    THEN <<>>
    ELSE LET token == Head(tokens)
         IN  (CASE token.kind = "Repetition" -> <<token>> \o RepetitionsOf(token.tokens)
                [] token.kind = "Alternative" -> RepetitionsOf(Flatten(token.branches))
                [] OTHER -> <<>>)
             \o RepetitionsOf(Tail(tokens))

\* the number that the digits of a bound write
BoundValue(digits) ==
    CASE digits = <<"0">> -> 0
      [] digits = <<"1">> -> 1
      [] digits = <<"2">> -> 2
      [] digits = <<"3">> -> 3
      [] digits = <<"1", "0">> -> 10

\* <a> with the suffix of bounds
RepetitionText(suffix) == <<"<", "a">> \o suffix \o <<">">>

\* parse gave one repetition of these bounds
IsRepetitionOf(result, lower, upper) ==
    /\ result /= None
    /\ Len(result[1]) = 1
    /\ result[1][1].kind = "Repetition"
    /\ RepetitionBounds(result[1][1]) = [lower |-> lower, upper |-> upper]

\* C26: every repetition that parse gives has an upper bound, when it has
\* one, of one or more and not below its lower bound; bounds() gives the
\* bounds that the suffix writes: none (0, unbounded), ":n" (n, n),
\* ":lower," (lower, unbounded), ":lower,upper" (lower, upper); an upper
\* bound of zero or below the lower bound does not parse
C26_RepetitionBounds ==
    \A i \in Calls("parse") :
        /\ log[i].result /= None
            => \A r \in 1..Len(RepetitionsOf(log[i].result[1])) :
                    LET bounds == RepetitionBounds(RepetitionsOf(log[i].result[1])[r])
                    IN  bounds.upper /= None
                            => bounds.upper[1] >= 1 /\ bounds.upper[1] >= bounds.lower
        /\ log[i].expression = RepetitionText(<<>>)
            => IsRepetitionOf(log[i].result, 0, None)
        /\ \A n \in BoundDigits :
                log[i].expression = RepetitionText(<<":">> \o n)
                    => IF BoundValue(n) = 0
                       THEN log[i].result = None
                       ELSE IsRepetitionOf(log[i].result, BoundValue(n),
                                           Some(BoundValue(n)))
        /\ \A lower \in BoundDigits :
                log[i].expression = RepetitionText(<<":">> \o lower \o <<",">>)
                    => IsRepetitionOf(log[i].result, BoundValue(lower), None)
        /\ \A lower \in BoundDigits, upper \in BoundDigits :
                log[i].expression = RepetitionText(<<":">> \o lower \o <<",">> \o upper)
                    => IF BoundValue(upper) = 0 \/ BoundValue(upper) < BoundValue(lower)
                       THEN log[i].result = None
                       ELSE IsRepetitionOf(log[i].result, BoundValue(lower),
                                           Some(BoundValue(upper)))

\* <a:2,3> was parsed to a repetition of the bounds (2, 3)
C26_Witness ==
    \E i \in Parses :
        /\ log[i].expression = RepetitionText(<<":", "2", ",", "3">>)
        /\ IsRepetitionOf(log[i].result, 2, Some(3))

\* ------------------------------------------------------------------------
\* Components and the upper bound of the invariant prefix
\* ------------------------------------------------------------------------

\* the tokens that are not separators, in their order
WithoutSeparators(tokens) == SelectSeq(tokens, LAMBDA token : token.kind /= "Separator")

\* C27: the components of a sequence of tokens, one after the other, are
\* the sequence without its separators; no component is empty; a tree
\* wildcard is a component of its own; no component holds a separator
C27_Components ==
    \A i \in Calls("components") :
        /\ Flatten(log[i].result) = WithoutSeparators(log[i].tokens)
        /\ \A c \in 1..Len(log[i].result) :
                LET component == log[i].result[c]
                IN  /\ component /= <<>>
                    /\ \A k \in 1..Len(component) :
                            /\ component[k].kind /= "Separator"
                            /\ IsTree(component[k]) => Len(component) = 1

\* the components of a sequence with a separator, a tree wildcard and a
\* component of two tokens were taken
C27_Witness ==
    \E i \in Calls("components") :
        /\ \E k \in 1..Len(log[i].tokens) : log[i].tokens[k].kind = "Separator"
        /\ \E c \in 1..Len(log[i].result) : IsTree(log[i].result[c][1])
        /\ \E c \in 1..Len(log[i].result) : Len(log[i].result[c]) >= 2

\* the token is a tree wildcard, or neither a separator nor invariant
StopsPrefix(token) ==
    \/ IsTree(token)
    \/ token.kind /= "Separator" /\ ~IsInvariant(TokenVariance(token))

\* C28: invariant_prefix_upper_bound gives n of at most the number of
\* tokens, with only separators and invariant tokens before n: the index of
\* the first tree wildcard, or the index after the last separator before the
\* first token that is not invariant (0 without one), or the number of
\* tokens when there is neither
C28_UpperBound ==
    \A i \in Calls("invariant_prefix_upper_bound") :
        LET tokens == log[i].tokens
            n == log[i].result
            stops == {k \in 1..Len(tokens) : StopsPrefix(tokens[k])}
            first == CHOOSE k \in stops : \A other \in stops : k <= other
            separators == {k \in 1..first : tokens[k].kind = "Separator"}
        IN  /\ n \in 0..Len(tokens)
            /\ \A k \in 1..n :
                    tokens[k].kind = "Separator" \/ IsInvariant(TokenVariance(tokens[k]))
            /\ stops = {} => n = Len(tokens)
            /\ (stops /= {} /\ IsTree(tokens[first])) => n = first - 1
            /\ (stops /= {} /\ ~IsTree(tokens[first]))
                    => /\ separators = {} => n = 0
                       /\ \A k \in separators :
                            (\A other \in separators : other <= k) => n = k

\* the upper bound of a sequence whose first token that is not invariant
\* stands after a separator and a literal was taken
C28_Witness ==
    \E i \in Calls("invariant_prefix_upper_bound") :
        /\ log[i].result >= 2
        /\ log[i].result + 2 <= Len(log[i].tokens)
        /\ log[i].tokens[log[i].result].kind = "Separator"
        /\ log[i].tokens[log[i].result + 1].kind = "Literal"
        /\ ~IsTree(log[i].tokens[log[i].result + 2])
        /\ StopsPrefix(log[i].tokens[log[i].result + 2])

\* ------------------------------------------------------------------------
\* The last compiled component and the entries above it
\* ------------------------------------------------------------------------

\* the walk looks at the components of the record: it is an entry that no
\* pattern of a negation matches
ReachesComponents(record) ==
    /\ record.kind = "Ok"
    /\ this.negation /= None
        => /\ ~AnyIsMatch(this.negation[1].terminal, CandidateText(record))
           /\ ~AnyIsMatch(this.negation[1].nonterminal, CandidateText(record))

\* the last name of the record stands at the place of the last compiled
\* pattern and fails it
FailsLastComponent(record) ==
    /\ this.components /= <<>>
    /\ Len(CandidateNames(record)) = Len(this.components)
    /\ ~IsMatch(this.components[Len(this.components)],
                CandidateNames(record)[Len(this.components)])

\* the record has fewer names than there are compiled patterns and each
\* name matches the pattern at its place
MatchesShallow(record) ==
    /\ Len(CandidateNames(record)) < Len(this.components)
    /\ \A k \in 1..Len(CandidateNames(record)) :
            IsMatch(this.components[k], CandidateNames(record)[k])

\* C29: an entry whose last name stands at the place of the last compiled
\* pattern and fails it is not emitted and, if it is a directory, the
\* descent into it is cancelled and nothing beneath it is visited; an entry
\* with fewer names than compiled patterns, all of which match, is not
\* emitted and the descent into it is not cancelled
C29_TerminalAndShallow ==
    IsWalk =>
        \A i \in Records :
            ReachesComponents(log[i]) =>
                /\ FailsLastComponent(log[i])
                    => /\ log[i].outcome /= Emitted
                       /\ IsDirRecord(log[i])
                            => log[i].outcome = PrunedTree /\ NothingBeneath(i)
                /\ MatchesShallow(log[i]) => log[i].outcome = PrunedNode

\* ------------------------------------------------------------------------
\* What WalkTree remembers of what it yielded last
\* ------------------------------------------------------------------------

\* the record is a file, not a directory, whose tree a combinator discarded
IsCancelledFile(record) ==
    /\ record.kind = "Ok"
    /\ record.file_type /= "dir"
    /\ record.outcome = PrunedTree

\* C30: after every next of a walk of a tree, is_dir tells that the item
\* yielded last is an entry that is a directory: it is false before the
\* first item, after an error, after a file that is no directory and after
\* the end; and cancel_walk_tree after a file that is no directory skips
\* nothing: when the walk has ended, every other file of the directory of a
\* cancelled file has been read
C30_IsDir ==
    IsWalkTree =>
        /\ this.is_dir = (~ended /\ log /= <<>> /\ IsDirRecord(log[Len(log)]))
        /\ ended =>
            \A i \in Records :
                IsCancelledFile(log[i]) =>
                    \A q \in FsPaths :
                        Sibling(q, log[i].path) => \E j \in Records : log[j].path = q

\* a walk has ended that read a file, cancelled the walk of its tree and
\* read another file of the same directory after it
C30_Witness ==
    /\ IsWalkTree
    /\ ended
    /\ \E i \in Records :
        /\ IsCancelledFile(log[i])
        /\ \E j \in Records : j > i /\ Sibling(log[j].path, log[i].path)

====
